---- MODULE Spec2Model ----
(***************************************************************************)
(* OpenEye surveillance backend: the alert dispatcher (alert_manager.py),  *)
(* the recorder (recorder.py), the camera manager and its frame loop       *)
(* (camera_manager.py), the face detector (face_detection.py), the         *)
(* rule-based alert manager (alert_notification_system.py), the motion     *)
(* detector (motion_detector.py), the face galleries (face_recognition.py, *)
(* facial_recognition_system.py) and the WebSocket layer as state machines.*)
(*                                                                         *)
(* SpecAlert    : alert trigger coroutines scheduled on the event loop,    *)
(*                the alert_throttles table, quiet hours, channel fanout.  *)
(* SpecRecorder : a Recorder object under arbitrary calls of its methods.  *)
(* SpecRecorders : the Recorders of two cameras called side by side.       *)
(* SpecCamera   : CameraManager.add_camera / remove_camera and get_frame   *)
(*                calls on the registered cameras.                         *)
(* SpecCameraFair : the same, frames being requested and time passing.     *)
(* SpecLoop     : the event loop running MJPEG streams and test alerts.    *)
(* SpecFace     : a FaceDetector under process_frame calls.                *)
(* SpecRules    : the rule-based AlertManager: rules, rate limits, the     *)
(*                delivery worker and its statistics; SpecRulesFair adds   *)
(*                the event loop running the worker.                       *)
(* SpecMotion   : a MotionDetector under update_settings and detect calls. *)
(* SpecGallery  : a FaceRecognitionManager and a FaceRecognitionSystem     *)
(*                under training, enrolment, removal and recognition.      *)
(* SpecWs       : WebSocketConnectionManager under concurrent connect,     *)
(*                disconnect and broadcast calls (websocket_manager.py).   *)
(* SpecEndpoint : the /ws/statistics endpoint and the messages it sends.   *)
(* SpecStats    : the StatisticsBroadcaster loop (statistics_broadcaster.py)*)
(*                broadcasting through that manager; SpecStatsFair adds    *)
(*                the event loop running every ready task.                 *)
(***************************************************************************)
EXTENDS Integers, Sequences, FiniteSets, TLC

VARIABLES
    wall,               \* datetime.utcnow()/now(), whole seconds
    ticks,              \* number of clock advances so far (bounded)
    configs,            \* rows of the alert_configurations table
    throttles,          \* alert_throttles table: throttle_key -> row
    tasks,              \* trigger coroutines created with asyncio.create_task
    notification_logs,  \* committed rows of the notification_logs table
    clock,              \* time.time(), in 1/TicksPerSecond seconds
    cams,               \* Camera objects: camera name -> fields
    rec,                \* Recorder objects: camera name -> fields
    sinks,              \* cv2.VideoWriter objects ever opened
    saved,              \* metadata files written by Recorder._save_metadata
    framed,             \* cameras that took a frame at this clock value
    calls,              \* Recorder method calls so far: how many, and the last one (SpecRecorder)
    cameras,            \* CameraManager.cameras: the ids registered (the object is cams[id])
    returned,           \* camera id -> what its last get_frame call returned or raised
    max_connections_per_user,  \* WebSocketConnectionManager constructor argument
    active_connections, \* dict connection_id -> connection, as its entry array
    user_connections,   \* dict user_id -> set of connection ids
    accepting,          \* the connect() holding _lock across websocket.accept()
    uuids,              \* number of connection ids generated so far
    sockets,            \* connection_id -> what connect() did with its socket
    broadcasts,         \* calls of broadcast / broadcast_to_user / send_personal_message
    broadcaster,        \* StatisticsBroadcaster: is_running and its loop task
    sessions,           \* websocket_statistics_endpoint runs: connection id -> position, messages the client got
    rules,              \* alert_notification_system.AlertManager.rules: rule id -> AlertRule
    trigger_history,    \* AlertManager._trigger_history: rule id -> trigger times
    notification_queue, \* AlertManager.notification_queue
    delivery_history,   \* AlertManager.delivery_history
    triggers,           \* every run of _trigger_alert so far: rule id and time
    detector,           \* a FaceDetector object called directly (SpecFace)
    face_log,           \* its process_frame calls: observations appended, recognizer invocations, last result
    motion_detector,    \* a MotionDetector object (SpecMotion)
    motion_log,         \* the last call made on it: its arguments and what it returned or raised
    face_manager,       \* a FaceRecognitionManager: its faces folder and its gallery (SpecGallery)
    face_system,        \* a FaceRecognitionSystem: people, gallery and recognition cache (SpecGallery)
    match_log           \* the last training or recognition call and its result

alertVars == <<wall, ticks, configs, throttles, tasks, notification_logs>>
camVars   == <<clock, cams, rec, sinks, saved, framed, calls, cameras, returned>>
wsVars    == <<max_connections_per_user, active_connections, user_connections,
               accepting, uuids, sockets, broadcasts, broadcaster>>
ruleVars  == <<rules, trigger_history, notification_queue, delivery_history,
               triggers>>
faceVars  == <<detector, face_log>>
motionVars == <<motion_detector, motion_log>>
matchVars == <<face_manager, face_system, match_log>>
vars      == <<wall, ticks, configs, throttles, tasks, notification_logs,
               clock, cams, rec, sinks, saved, framed, calls, cameras, returned,
               max_connections_per_user, active_connections, user_connections,
               accepting, uuids, sockets, broadcasts, broadcaster,
               sessions, rules, trigger_history, notification_queue,
               delivery_history, triggers, detector, face_log,
               motion_detector, motion_log, face_manager, face_system,
               match_log>>

\* ---------------------------------------------------------------- bounds
MaxTicks == 2          \* clock advances in SpecAlert, SpecRecorder and SpecRecorders
MaxTasks == 2          \* trigger tasks created in SpecAlert
TicksPerSecond == 1    \* resolution of `clock`
MotionHorizon == 8     \* motion and faces occur in the first MotionHorizon clock values
MaxRaised == 3         \* alert tasks the frame loops create in SpecCamera
MaxCalls == 7          \* method calls made on Recorders in SpecRecorder and SpecRecorders
MaxConnects == 4       \* connect calls (connection ids generated)
MaxIterations == 2     \* iterations of the statistics loop in SpecStats
StatsConnects == 2     \* connect calls in SpecStats
MaxBroadcasts == 1     \* broadcast / broadcast_to_user / send_personal_message calls
MaxObserved == 13       \* observations appended to the buffer in SpecFace
MaxFaceTicks == 5       \* seconds that pass in SpecFace
MaxSessions == 2        \* connections opened in SpecEndpoint
MaxMessages == 3        \* messages sent to clients in SpecEndpoint
MaxTriggers == 3       \* notifications queued or delivered before the last process_event in SpecRules
MaxFrames == 2         \* frames given to one background model in SpecMotion
MaxEncodings == 2      \* gallery entries of the FaceRecognitionSystem before the last add_person in SpecGallery
MaxCached == 2         \* entries of its recognition cache in SpecGallery

\* ------------------------------------------------------- small utilities
Range(s) == {s[i] : i \in DOMAIN s}

SecondsPerDay == 24 * 3600

\* datetime.now().time(): the time of day of a clock value
TimeOfDay(t) == t % SecondsPerDay

\* ------------------------------------------------- quiet hours (81..108)
ParseError == -1

DigitVal(c) ==
    CASE c = "0" -> 0 [] c = "1" -> 1 [] c = "2" -> 2 [] c = "3" -> 3
      [] c = "4" -> 4 [] c = "5" -> 5 [] c = "6" -> 6 [] c = "7" -> 7
      [] c = "8" -> 8 [] c = "9" -> 9 [] OTHER -> ParseError

\* value of a run of one or two decimal digits, ParseError otherwise
DigitsVal(s) ==
    IF Len(s) = 1 /\ DigitVal(s[1]) # ParseError THEN DigitVal(s[1])
    ELSE IF Len(s) = 2 /\ DigitVal(s[1]) # ParseError /\ DigitVal(s[2]) # ParseError
         THEN 10 * DigitVal(s[1]) + DigitVal(s[2])
         ELSE ParseError

\* datetime.strptime(s, "%H:%M").time() as seconds after midnight; the
\* string is a sequence of characters; ParseError stands for ValueError
ParseHM(s) ==
    LET colons == {i \in DOMAIN s : s[i] = ":"}
    IN  IF Cardinality(colons) # 1 THEN ParseError
        ELSE LET c == CHOOSE i \in colons : TRUE
                 h == DigitsVal(SubSeq(s, 1, c - 1))
                 m == DigitsVal(SubSeq(s, c + 1, Len(s)))
             IN  IF h = ParseError \/ m = ParseError \/ h > 23 \/ m > 59
                 THEN ParseError
                 ELSE h * 3600 + m * 60

\* _is_quiet_hours with the overnight test written with `and`
IsQuietHoursOvernightAnd(config, tod) ==
    IF ~config.quiet_hours_enabled THEN FALSE
    ELSE LET start_time == ParseHM(config.quiet_hours_start)
             end_time   == ParseHM(config.quiet_hours_end)
         IN  IF start_time = ParseError \/ end_time = ParseError THEN FALSE
             ELSE IF start_time > end_time
                  THEN tod >= start_time /\ tod <= end_time
                  ELSE start_time <= tod /\ tod <= end_time

\* _is_quiet_hours with the end of the window excluded
IsQuietHoursEndExcluded(config, tod) ==
    IF ~config.quiet_hours_enabled THEN FALSE
    ELSE LET start_time == ParseHM(config.quiet_hours_start)
             end_time   == ParseHM(config.quiet_hours_end)
         IN  IF start_time = ParseError \/ end_time = ParseError THEN FALSE
             ELSE IF start_time > end_time
                  THEN tod >= start_time \/ tod < end_time
                  ELSE start_time <= tod /\ tod < end_time

\* AlertManager._is_quiet_hours(config) evaluated at time of day tod
IsQuietHours(config, tod) ==
    IF ~config.quiet_hours_enabled THEN FALSE
    ELSE LET start_time == ParseHM(config.quiet_hours_start)
             end_time   == ParseHM(config.quiet_hours_end)
         IN  IF start_time = ParseError \/ end_time = ParseError THEN FALSE
             ELSE IF start_time > end_time
                  THEN tod >= start_time \/ tod <= end_time
                  ELSE start_time <= tod /\ tod <= end_time

\* ------------------------------------------- throttle gate (33..79)
\* _should_send_alert comparing with > instead of >=
ShouldSendAlertStrict(table, throttle_key, min_seconds, now) ==
    IF throttle_key \notin DOMAIN table
    THEN [allowed |-> TRUE,
          table   |-> [k \in DOMAIN table \cup {throttle_key} |->
                         IF k = throttle_key
                         THEN [last_alert_time |-> now, alert_count |-> 1]
                         ELSE table[k]]]
    ELSE IF now - table[throttle_key].last_alert_time > min_seconds
         THEN [allowed |-> TRUE,
               table   |-> [table EXCEPT ![throttle_key] =
                              [last_alert_time |-> now,
                               alert_count |-> @.alert_count + 1]]]
         ELSE [allowed |-> FALSE, table |-> table]

\* _should_send_alert that allows a later call without writing the row
ShouldSendAlertNoUpdate(table, throttle_key, min_seconds, now) ==
    IF throttle_key \notin DOMAIN table
    THEN [allowed |-> TRUE,
          table   |-> [k \in DOMAIN table \cup {throttle_key} |->
                         IF k = throttle_key
                         THEN [last_alert_time |-> now, alert_count |-> 1]
                         ELSE table[k]]]
    ELSE IF now - table[throttle_key].last_alert_time >= min_seconds
         THEN [allowed |-> TRUE, table |-> table]
         ELSE [allowed |-> FALSE, table |-> table]

\* _should_send_alert that restarts the interval on a throttled call
ShouldSendAlertTouch(table, throttle_key, min_seconds, now) ==
    IF throttle_key \notin DOMAIN table
    THEN [allowed |-> TRUE,
          table   |-> [k \in DOMAIN table \cup {throttle_key} |->
                         IF k = throttle_key
                         THEN [last_alert_time |-> now, alert_count |-> 1]
                         ELSE table[k]]]
    ELSE IF now - table[throttle_key].last_alert_time >= min_seconds
         THEN [allowed |-> TRUE,
               table   |-> [table EXCEPT ![throttle_key] =
                              [last_alert_time |-> now,
                               alert_count |-> @.alert_count + 1]]]
         ELSE [allowed |-> FALSE,
               table   |-> [table EXCEPT ![throttle_key].last_alert_time = now]]

\* _should_send_alert that does not create the row of a key it sees for
\* the first time
ShouldSendAlertForgets(table, throttle_key, min_seconds, now) ==
    IF throttle_key \notin DOMAIN table
    THEN [allowed |-> TRUE, table |-> table]
    ELSE IF now - table[throttle_key].last_alert_time >= min_seconds
         THEN [allowed |-> TRUE,
               table   |-> [table EXCEPT ![throttle_key] =
                              [last_alert_time |-> now,
                               alert_count |-> @.alert_count + 1]]]
         ELSE [allowed |-> FALSE, table |-> table]

\* AlertManager._should_send_alert: the decision and the table afterwards
ShouldSendAlert(table, throttle_key, min_seconds, now) ==
    IF throttle_key \notin DOMAIN table
    THEN [allowed |-> TRUE,
          table   |-> [k \in DOMAIN table \cup {throttle_key} |->
                         IF k = throttle_key
                         THEN [last_alert_time |-> now, alert_count |-> 1]
                         ELSE table[k]]]
    ELSE IF now - table[throttle_key].last_alert_time >= min_seconds
         THEN [allowed |-> TRUE,
               table   |-> [table EXCEPT ![throttle_key] =
                              [last_alert_time |-> now,
                               alert_count |-> @.alert_count + 1]]]
         ELSE [allowed |-> FALSE, table |-> table]

\* ------------------------------------- alert_configurations rows (13..55)
\* A recipient of "" stands for a NULL or empty column (falsy in the code).
\* "HH:MM" strings are sequences of characters.
DefaultConfig ==
    [motion_alerts_enabled |-> TRUE,
     face_recognition_alerts_enabled |-> TRUE,
     unknown_face_alerts_enabled |-> TRUE,
     recording_alerts_enabled |-> FALSE,
     email_enabled |-> TRUE, sms_enabled |-> FALSE,
     push_enabled |-> FALSE, webhook_enabled |-> FALSE,
     email_address |-> "", phone_number |-> "",
     push_token |-> "", webhook_url |-> "",
     min_seconds_between_alerts |-> 300,
     quiet_hours_enabled |-> FALSE,
     quiet_hours_start |-> <<"2", "2", ":", "0", "0">>,
     quiet_hours_end |-> <<"0", "7", ":", "0", "0">>]

\* overnight quiet hours 22:00-07:00; email deliverable, SMS and webhook
\* enabled without a recipient, push token present but push disabled
CfgNight ==
    [DefaultConfig EXCEPT !.recording_alerts_enabled = TRUE,
        !.email_address = "night@example.org",
        !.sms_enabled = TRUE,
        !.push_token = "tokenA",
        !.webhook_enabled = TRUE,
        !.quiet_hours_enabled = TRUE]

\* no quiet hours, 60 s throttle; SMS and webhook deliverable, email
\* address present but email disabled
CfgFast ==
    [DefaultConfig EXCEPT !.recording_alerts_enabled = TRUE,
        !.email_enabled = FALSE, !.email_address = "fast@example.org",
        !.sms_enabled = TRUE, !.phone_number = "+15550100",
        !.webhook_enabled = TRUE, !.webhook_url = "http://hook",
        !.min_seconds_between_alerts = 60]

\* same-day quiet hours 12:00-12:05; motion alerts only; email only
CfgDay ==
    [DefaultConfig EXCEPT !.email_address = "day@example.org",
        !.face_recognition_alerts_enabled = FALSE,
        !.unknown_face_alerts_enabled = FALSE,
        !.quiet_hours_enabled = TRUE,
        !.quiet_hours_start = <<"1", "2", ":", "0", "0">>,
        !.quiet_hours_end = <<"1", "2", ":", "0", "5">>]

\* quiet hours enabled with a start that strptime rejects; face alerts
\* only; no channel deliverable
CfgBad ==
    [DefaultConfig EXCEPT !.motion_alerts_enabled = FALSE,
        !.email_enabled = FALSE,
        !.quiet_hours_enabled = TRUE,
        !.quiet_hours_start = <<"2", "5", ":", "0", "0">>]

\* every alert type but recording; email only; the default 300 s throttle
\* (as CfgDay has) and no quiet hours
CfgTwin ==
    [DefaultConfig EXCEPT !.email_address = "twin@example.org"]

NightTable == <<CfgNight, CfgFast>>
DayTable   == <<CfgDay, CfgBad>>
TwinTable  == <<CfgDay, CfgTwin>>

\* the clock values the dispatcher starts at, with the table it starts
\* with: 03:00:00, 06:59:00, 12:00:00, 21:59:30, 23:00:00, 09:00:00
Starts ==
    {<<3 * 3600, NightTable>>, <<6 * 3600 + 59 * 60, NightTable>>,
     <<12 * 3600, NightTable>>, <<21 * 3600 + 59 * 60 + 30, NightTable>>,
     <<23 * 3600, NightTable>>, <<12 * 3600, DayTable>>,
     <<9 * 3600, TwinTable>>}

\* amounts the clock advances by between steps
Steps == {30, 60, 300}

\* ------------------------------------------------------- alert events
\* the arguments of the three trigger coroutines
MotionEvent(cam) ==
    [kind |-> "motion", camera_id |-> cam, person_name |-> "",
     is_known |-> FALSE, recording_started |-> FALSE]
FaceEvent(cam, name) ==
    [kind |-> "face", camera_id |-> cam, person_name |-> name,
     is_known |-> (name # "Unknown"), recording_started |-> FALSE]
RecordingEvent(cam, started) ==
    [kind |-> "recording", camera_id |-> cam, person_name |-> "",
     is_known |-> FALSE, recording_started |-> started]

Events ==
    {MotionEvent("mock_cam"), FaceEvent("unknown", "alice"),
     RecordingEvent("mock_cam", TRUE)}

\* event_type as computed by each trigger
EventType(e) ==
    IF e.kind = "motion" THEN "motion"
    ELSE IF e.kind = "face"
         THEN (IF e.is_known THEN "face_known" ELSE "face_unknown")
         ELSE (IF e.recording_started THEN "recording_started"
               ELSE "recording_stopped")

\* the throttle_key f-strings (131, 196, 247)
ThrottleKey(e) ==
    IF e.kind = "motion" THEN "motion_" \o e.camera_id
    ELSE IF e.kind = "face"
         THEN EventType(e) \o "_" \o e.person_name \o "_" \o e.camera_id
         ELSE EventType(e) \o "_" \o e.camera_id

\* min_seconds passed to _should_send_alert (135, 200, 248)
MinSeconds(e, config) ==
    IF e.kind = "recording" THEN 60 ELSE config.min_seconds_between_alerts

\* the db.query(...).filter(<flag> == True).all() of each trigger: the
\* indexes of the selected rows, in table order
AlertEnabled(e, config) ==
    IF e.kind = "motion" THEN config.motion_alerts_enabled
    ELSE IF e.kind = "face"
         THEN (IF e.is_known THEN config.face_recognition_alerts_enabled
               ELSE config.unknown_face_alerts_enabled)
         ELSE config.recording_alerts_enabled

RECURSIVE SelectIdx(_, _, _)
SelectIdx(table, e, i) ==
    IF i > Len(table) THEN <<>>
    ELSE (IF AlertEnabled(e, table[i]) THEN <<i>> ELSE <<>>)
         \o SelectIdx(table, e, i + 1)

QueryConfigs(table, e) == SelectIdx(table, e, 1)

\* ------------------------------------------------ channels (291..387)
Channels == <<"email", "sms", "push", "webhook">>

ChannelEnabled(config, ch) ==
    CASE ch = "email"   -> config.email_enabled
      [] ch = "sms"     -> config.sms_enabled
      [] ch = "push"    -> config.push_enabled
      [] ch = "webhook" -> config.webhook_enabled

Recipient(config, ch) ==
    CASE ch = "email"   -> config.email_address
      [] ch = "sms"     -> config.phone_number
      [] ch = "push"    -> config.push_token
      [] ch = "webhook" -> config.webhook_url

\* the channel test without the recipient check
ShouldAttemptAnyRecipient(config, ch) == ChannelEnabled(config, ch)

\* the `if config.<ch>_enabled and config.<recipient>:` tests
ShouldAttempt(config, ch) ==
    ChannelEnabled(config, ch) /\ Recipient(config, ch) # ""

NextChannel(ch) ==
    CASE ch = "email" -> "sms" [] ch = "sms" -> "push"
      [] ch = "push"  -> "webhook" [] ch = "webhook" -> "end"

\* ----------------------------------------------------- trigger tasks
\* A task is one run of trigger_motion_alert / trigger_face_recognition_
\* alert / trigger_recording_alert on the event loop.  It runs without
\* interruption between awaits.  pc: "start" (created, not yet run),
\* "loop" (at the head of `for config in configs`), a channel name
\* (suspended in _send_notifications at that channel's send), "done".
\* verdicts records, per loop iteration, the configuration, the outcome
\* of its gates and the clock value its gates read; sent records the sends
\* that returned.
NewTask(e) ==
    [event |-> e, pc |-> "start", cfgs |-> <<>>, idx |-> 0,
     verdicts |-> <<>>, sent |-> <<>>, pending |-> <<>>]

TaskIds == DOMAIN tasks

\* send_sms is an ordinary function (notification_service.py 108): the
\* task that calls it keeps the event loop's thread until the Twilio
\* request returns, and no other coroutine runs meanwhile
HeldBy == {t \in TaskIds : tasks[t].pc = "sms"}

\* position after the body of the loop has been left for config idx
Advance(task) ==
    IF task.idx < Len(task.cfgs)
    THEN [task EXCEPT !.idx = @ + 1, !.pc = "loop"]
    ELSE [task EXCEPT !.pc = "done"]

\* the first channel block at or after ch whose `if` test passes
RECURSIVE FirstAttempt(_, _)
FirstAttempt(config, ch) ==
    IF ch = "end" \/ ShouldAttempt(config, ch) THEN ch
    ELSE FirstAttempt(config, NextChannel(ch))

\* asyncio.create_task(alert_manager.trigger_..._alert(...))
CreateTask(e) ==
    /\ HeldBy = {}
    /\ Len(tasks) < MaxTasks
    /\ tasks' = Append(tasks, NewTask(e))
    /\ UNCHANGED <<wall, ticks, configs, throttles, notification_logs, camVars, wsVars, sessions, ruleVars, faceVars, motionVars, matchVars>>

\* the outcome of one loop iteration's gates
Verdict(allowed, config, now) ==
    IF ~allowed THEN "throttled"
    ELSE IF IsQuietHours(config, TimeOfDay(now)) THEN "quiet"
    ELSE "send"

\* _send_notifications from channel block ch on, up to the next send it
\* makes; with no send left, db.commit() and the return to the loop
Proceed(task, config, ch) ==
    LET nxt == FirstAttempt(config, ch)
    IN  IF nxt = "end"
        THEN [logs |-> task.pending,
              task |-> Advance([task EXCEPT !.pending = <<>>])]
        ELSE [logs |-> <<>>, task |-> [task EXCEPT !.pc = nxt]]

\* the task entered at "start" (the configuration query first) or at the
\* head of the loop: one iteration of `for config in configs`, i.e. the
\* throttle gate, the quiet-hours gate and the entry into
\* _send_notifications
TaskIterate(t) ==
    /\ HeldBy = {}
    /\ tasks[t].pc \in {"start", "loop"}
    /\ LET task == IF tasks[t].pc = "start"
                   THEN [tasks[t] EXCEPT !.idx = 1,
                            !.cfgs = QueryConfigs(configs, tasks[t].event)]
                   ELSE tasks[t]
       IN  IF task.cfgs = <<>>
           THEN /\ tasks' = [tasks EXCEPT ![t] = [task EXCEPT !.pc = "done"]]
                /\ UNCHANGED <<throttles, notification_logs>>
           ELSE LET config == configs[task.cfgs[task.idx]]
                    gate   == ShouldSendAlert(throttles, ThrottleKey(task.event),
                                              MinSeconds(task.event, config), wall)
                    v      == Verdict(gate.allowed, config, wall)
                    noted  == [task EXCEPT !.verdicts =
                                 Append(@, [config |-> task.cfgs[task.idx],
                                            verdict |-> v, at |-> wall])]
                    go     == Proceed(noted, config, "email")
                IN  /\ throttles' = gate.table
                    /\ tasks' = [tasks EXCEPT ![t] =
                                   IF v = "send" THEN go.task ELSE Advance(noted)]
                    /\ notification_logs' =
                          IF v = "send" THEN notification_logs \o go.logs
                          ELSE notification_logs
    /\ UNCHANGED <<wall, ticks, configs, camVars, wsVars, sessions, ruleVars, faceVars, motionVars, matchVars>>

\* the NotificationLog row built after a send
LogRow(t, task, ch, ok) ==
    [task |-> t, config |-> task.cfgs[task.idx],
     event_type |-> EventType(task.event),
     camera_id |-> task.event.camera_id,
     channel |-> ch, sent_successfully |-> ok]

\* the send the task is suspended at returns (success = ok): its
\* NotificationLog is added to the session and _send_notifications goes on
TaskChannel(t, ok) ==
    /\ HeldBy \subseteq {t}
    /\ tasks[t].pc \in Range(Channels)
    /\ LET task   == tasks[t]
           ch     == task.pc
           config == configs[task.cfgs[task.idx]]
           logged == [task EXCEPT
                        !.sent = Append(@, [config |-> task.cfgs[task.idx],
                                            channel |-> ch, ok |-> ok]),
                        !.pending = Append(@, LogRow(t, task, ch, ok))]
           go     == Proceed(logged, config, NextChannel(ch))
       IN  /\ tasks' = [tasks EXCEPT ![t] = go.task]
           /\ notification_logs' = notification_logs \o go.logs
    /\ UNCHANGED <<wall, ticks, configs, throttles, camVars, wsVars, sessions, ruleVars, faceVars, motionVars, matchVars>>

\* the clock advances
Tick(d) ==
    /\ ticks < MaxTicks
    /\ wall' = wall + d
    /\ ticks' = ticks + 1
    /\ UNCHANGED <<configs, throttles, tasks, notification_logs, camVars, wsVars, sessions, ruleVars, faceVars, motionVars, matchVars>>

NoCalls == [n |-> 0, last |-> "none"]
Called(method) == [n |-> calls.n + 1, last |-> method]

EmptyTable == [k \in {} |-> 0]

\* the module-level ws_manager and a broadcaster that was never started
NoBroadcaster ==
    [is_running |-> FALSE, pc |-> "none", slept |-> 0, iterations |-> 0]

WsIdle ==
    /\ max_connections_per_user = 5
    /\ active_connections = <<>>
    /\ user_connections = EmptyTable
    /\ accepting = <<>>
    /\ uuids = 0
    /\ sockets = EmptyTable
    /\ broadcasts = <<>>
    /\ broadcaster = NoBroadcaster

CamIdle ==
    /\ clock = 0
    /\ cams = EmptyTable
    /\ rec = EmptyTable
    /\ sinks = <<>>
    /\ saved = <<>>
    /\ framed = {}
    /\ calls = NoCalls
    /\ cameras = {}
    /\ returned = EmptyTable

\* no endpoint run, an AlertManager without rules, a FaceDetector not yet
\* called
RulesIdle ==
    /\ rules = EmptyTable
    /\ trigger_history = EmptyTable
    /\ notification_queue = <<>>
    /\ delivery_history = <<>>
    /\ triggers = <<>>

FaceIdle ==
    /\ detector = EmptyTable
    /\ face_log = EmptyTable

\* no MotionDetector, FaceRecognitionManager or FaceRecognitionSystem yet
MotionIdle ==
    /\ motion_detector = EmptyTable
    /\ motion_log = EmptyTable

MatchIdle ==
    /\ face_manager = EmptyTable
    /\ face_system = EmptyTable
    /\ match_log = EmptyTable

RestIdle ==
    /\ sessions = EmptyTable
    /\ RulesIdle
    /\ FaceIdle
    /\ MotionIdle
    /\ MatchIdle

AlertInit ==
    /\ RestIdle
    /\ WsIdle
    /\ CamIdle
    /\ \E st \in Starts : wall = st[1] /\ configs = st[2]
    /\ ticks = 0
    /\ throttles = EmptyTable
    /\ tasks = <<>>
    /\ notification_logs = <<>>

AlertNext ==
    \/ \E e \in Events : CreateTask(e)
    \/ \E t \in TaskIds : TaskIterate(t)
    \/ \E t \in TaskIds, ok \in BOOLEAN : TaskChannel(t, ok)
    \/ \E d \in Steps : Tick(d)

SpecAlert == AlertInit /\ [][AlertNext]_vars

\* ======================================================================
\* Recorder (recorder.py) and the per-camera frame loop (camera_manager.py)
\* ======================================================================
post_motion_cooldown == 5
detection_cooldown == 2
max_buffer_size == 10

NoWriter == 0     \* self.writer = None
NoFile == -1      \* self.filename = ""
NoTime == -2      \* recording_start_time / last_detection_time = None

\* datetime.now().strftime("%Y%m%d_%H%M%S"): the clock cut to whole seconds
Timestamp(now) == now \div TicksPerSecond

\* Recorder.__init__
NewRecorder ==
    [is_recording |-> FALSE, writer |-> NoWriter,
     filename |-> NoFile, metadata_filename |-> NoFile,
     detected_faces |-> <<>>, recording_start_time |-> NoTime,
     frame_count |-> 0]

\* Recorder.start without the early return for a recorder that records
RecorderStartAgain(r, owner, now, opens, sk) ==
    LET made == [owner |-> owner, filename |-> Timestamp(now),
                 opened |-> opens, released |-> FALSE, frames |-> 0]
        r1   == [r EXCEPT !.filename = Timestamp(now),
                          !.metadata_filename = Timestamp(now),
                          !.writer = Len(sk) + 1]
    IN  IF ~opens
        THEN [rec |-> r1, sinks |-> Append(sk, made)]
        ELSE [rec |-> [r1 EXCEPT !.is_recording = TRUE,
                                 !.recording_start_time = now,
                                 !.frame_count = 0,
                                 !.detected_faces = <<>>],
              sinks |-> Append(sk, made)]

\* Recorder.start; opens is the outcome of writer.isOpened(); the
\* VideoWriter created is appended to sk (owner is the recorder that
\* created it)
RecorderStart(r, owner, now, opens, sk) ==
    IF r.is_recording THEN [rec |-> r, sinks |-> sk]
    ELSE LET made == [owner |-> owner, filename |-> Timestamp(now),
                      opened |-> opens, released |-> FALSE, frames |-> 0]
             r1   == [r EXCEPT !.filename = Timestamp(now),
                               !.metadata_filename = Timestamp(now),
                               !.writer = Len(sk) + 1]
         IN  IF ~opens
             THEN [rec |-> r1, sinks |-> Append(sk, made)]
             ELSE [rec |-> [r1 EXCEPT !.is_recording = TRUE,
                                      !.recording_start_time = now,
                                      !.frame_count = 0,
                                      !.detected_faces = <<>>],
                   sinks |-> Append(sk, made)]

\* Recorder.write
RecorderWrite(r, sk) ==
    IF r.is_recording /\ r.writer # NoWriter
    THEN [rec |-> [r EXCEPT !.frame_count = @ + 1],
          sinks |-> [sk EXCEPT ![r.writer].frames = @ + 1]]
    ELSE [rec |-> r, sinks |-> sk]

\* Recorder.add_face_detection
RecorderAddFace(r, name, now) ==
    IF r.is_recording
    THEN [r EXCEPT !.detected_faces =
            Append(@, [name |-> name, frame_number |-> r.frame_count,
                       timestamp |-> now])]
    ELSE r

\* Recorder._save_metadata: the JSON document written
Metadata(r, owner, now) ==
    [owner |-> owner,
     metadata_filename |-> r.metadata_filename,
     filename |-> r.filename,
     started_at |-> r.recording_start_time,
     ended_at |-> now,
     duration |-> now - r.recording_start_time,
     frame_count |-> r.frame_count,
     total_detections |-> Len(r.detected_faces),
     known_faces |-> Cardinality({i \in DOMAIN r.detected_faces :
                                    r.detected_faces[i].name # "Unknown"}),
     unknown_faces |-> Cardinality({i \in DOMAIN r.detected_faces :
                                    r.detected_faces[i].name = "Unknown"})]

\* Recorder.stop
RecorderStop(r, owner, now, sk, sv) ==
    IF ~r.is_recording THEN [rec |-> r, sinks |-> sk, saved |-> sv]
    ELSE LET cleared == [r EXCEPT !.is_recording = FALSE,
                                  !.writer = NoWriter,
                                  !.filename = NoFile,
                                  !.metadata_filename = NoFile,
                                  !.detected_faces = <<>>,
                                  !.recording_start_time = NoTime,
                                  !.frame_count = 0]
         IN  IF r.writer # NoWriter
             THEN [rec |-> cleared,
                   sinks |-> [sk EXCEPT ![r.writer].released = TRUE],
                   saved |-> Append(sv, Metadata(r, owner, now))]
             ELSE [rec |-> cleared, sinks |-> sk, saved |-> sv]

\* ------------------------------------------------ FaceDetector (28..123)
NewFaceDetector(enabled) ==
    [enabled |-> enabled, last_detection_time |-> NoTime,
     detections_buffer |-> <<>>]

\* FaceDetector.should_process_frame; available: face_manager.is_available(),
\* the gallery of known encodings is not empty
ShouldProcessFrame(fd, now, available) ==
    /\ fd.enabled
    /\ available
    /\ \/ fd.last_detection_time = NoTime
       \/ now - fd.last_detection_time >= detection_cooldown * TicksPerSecond

\* a buffer cut by dropping its newest entries
KeepFirst(s, n) == IF Len(s) > n THEN SubSeq(s, 1, n) ELSE s

KeepLast(s, n) == IF Len(s) > n THEN SubSeq(s, Len(s) - n + 1, Len(s)) ELSE s

\* the face dicts of one recognition, with the motion flag set on them
Observations(faces, motion, now) ==
    [i \in DOMAIN faces |->
        [name |-> faces[i], motion_detected |-> motion, timestamp |-> now]]

\* FaceDetector.process_frame.  faces: the names recognize_faces_in_frame
\* returns; fails: it raises instead, and the handler of line 121 returns
\* the frame with no faces, last_detection_time being set only after a
\* recognition that returned.  The result: the detector, the frame and
\* faces returned, the alert tasks created, and whether the recognizer was
\* invoked.
ProcessFrame(fd, now, motion, faces, available, fails) ==
    IF ~ShouldProcessFrame(fd, now, available)
    THEN [fd |-> fd, faces |-> <<>>, raised |-> <<>>,
          invoked |-> FALSE, frame |-> "frame"]
    ELSE IF fails
    THEN [fd |-> fd, faces |-> <<>>, raised |-> <<>>,
          invoked |-> TRUE, frame |-> "frame"]
    ELSE [fd |-> [fd EXCEPT
                    !.last_detection_time = now,
                    !.detections_buffer =
                        KeepLast(@ \o Observations(faces, motion, now),
                                 max_buffer_size)],
          faces |-> faces,
          raised |-> [i \in DOMAIN faces |->
                        NewTask(FaceEvent("unknown", faces[i]))],
          invoked |-> TRUE, frame |-> "annotated"]

\* --------------------------------------------------- cameras (18..198)
\* Camera.__init__ followed by a successful start().  capture: "none"
\* (a mock camera has no VideoCapture), "open", "lost" (the stream is gone
\* for good: every read fails), "released"
NewCamera(kind, enable_face_detection) ==
    [kind |-> kind, is_running |-> TRUE, motion_detected |-> FALSE,
     last_motion_time |-> 0,
     face_detector |-> NewFaceDetector(enable_face_detection),
     last_faces_detected |-> <<>>,
     capture |-> IF kind = "rtsp" THEN "open" ELSE "none"]

\* getattr(self, 'camera_id', <default>): the attribute is never set
CameraId(cam) == IF cam.kind = "mock" THEN "mock_cam" ELSE "rtsp_cam"

\* the camera whose Recorder is called directly in SpecRecorder
CameraNames == {"cam1"}

\* camera ids passed to add_camera / remove_camera
CameraIds == {"cam1", "cam2"}

\* camera_type values passed to add_camera ("usb" is none of the two the
\* manager knows)
CameraTypes == {"mock", "rtsp", "usb"}

CooldownTicks == post_motion_cooldown * TicksPerSecond

\* the clock starts later than one cooldown after the epoch
ClockStart == CooldownTicks + 1
ClockEnd   == ClockStart + MotionHorizon + CooldownTicks + 1

\* the recording logic of get_frame (112..124 / 182..196): start on
\* motion, write while recording, stop after the cooldown
RecordingLogic(c, cam, r, now, opens, sk, sv) ==
    LET st == IF cam.motion_detected /\ ~r.is_recording
              THEN RecorderStart(r, c, now, opens, sk)
              ELSE [rec |-> r, sinks |-> sk]
        wr == IF st.rec.is_recording
              THEN RecorderWrite(st.rec, st.sinks)
              ELSE st
    IN  IF /\ st.rec.is_recording
           /\ ~cam.motion_detected
           /\ now - cam.last_motion_time > CooldownTicks
        THEN RecorderStop(wr.rec, c, now, wr.sinks, sv)
        ELSE [rec |-> wr.rec, sinks |-> wr.sinks, saved |-> sv]

\* MotionDetector.detect (motion_detector.py 173..242): the tuple returned
Detect(motion) == <<"annotated", motion, "motion_areas">>

\* the assignment `a, b = value`: it binds the two names when value has
\* two items and raises ValueError otherwise, binding nothing
Unpacks(value, targets) == Len(value) = targets

\* what a get_frame call gave its caller
NoReturn == [kind |-> "none", frame |-> "None", motion |-> FALSE]
Returned(frame, motion) == [kind |-> "return", frame |-> frame, motion |-> motion]
Raised(error) == [kind |-> error, frame |-> "None", motion |-> FALSE]

\* f with key k bound to v
Put(f, k, v) == [x \in DOMAIN f \cup {k} |-> IF x = k THEN v ELSE f[x]]

\* MockCamera.get_frame / RTSPCamera.get_frame on the camera object made
\* for id c.  ret: the capture delivered a frame (always for a mock
\* camera, never for a lost stream); motion: the flag MotionDetector.detect
\* computes; faces: the names face recognition would return; opens:
\* whether a VideoWriter opened now would open.  The result of detect is
\* assigned to two names (91 / 161).
GetFrame(c, ret, motion, faces, opens) ==
    /\ c \in DOMAIN cams
    /\ c \notin framed
    /\ (motion \/ faces # <<>>) => clock < ClockStart + MotionHorizon
    /\ cams[c].kind = "mock" => ret
    /\ cams[c].capture \in {"lost", "released"} => ~ret
    /\ IF ~cams[c].is_running \/ ~ret
       THEN /\ returned' = Put(returned, c, Returned("None", FALSE))
            /\ UNCHANGED <<cams, rec, sinks, saved, tasks, framed>>
       ELSE IF ~Unpacks(Detect(motion), 2)
       THEN /\ returned' = Put(returned, c, Raised("ValueError"))
            /\ framed' = framed \cup {c}
            /\ UNCHANGED <<cams, rec, sinks, saved, tasks>>
       ELSE LET det    == Detect(motion)
                cam0   == [cams[c] EXCEPT !.motion_detected = det[2]]
                alert  == IF cam0.motion_detected
                          THEN <<NewTask(MotionEvent(CameraId(cam0)))>>
                          ELSE <<>>
                fp     == IF cam0.face_detector.enabled
                          THEN ProcessFrame(cam0.face_detector, clock,
                                            cam0.motion_detected, faces,
                                            TRUE, FALSE)
                          ELSE [fd |-> cam0.face_detector,
                                faces |-> cam0.last_faces_detected,
                                raised |-> <<>>]
                cam1   == [cam0 EXCEPT
                             !.face_detector = fp.fd,
                             !.last_faces_detected = fp.faces,
                             !.last_motion_time =
                                 IF cam0.motion_detected THEN clock ELSE @]
                out    == RecordingLogic(c, cam1, rec[c], clock, opens, sinks, saved)
            IN  /\ Len(tasks) + Len(alert) + Len(fp.raised) <= MaxRaised
                /\ tasks' = tasks \o alert \o fp.raised
                /\ cams' = [cams EXCEPT ![c] = cam1]
                /\ rec' = [rec EXCEPT ![c] = out.rec]
                /\ sinks' = out.sinks
                /\ saved' = out.saved
                /\ framed' = framed \cup {c}
                /\ returned' = Put(returned, c,
                                   Returned(det[1], cam0.motion_detected))
    /\ UNCHANGED <<clock, calls, cameras, wall, ticks, configs, throttles,
                   notification_logs, wsVars, sessions, ruleVars, faceVars, motionVars, matchVars>>

\* time passes
ClockTick ==
    /\ clock < ClockEnd
    /\ clock' = clock + 1
    /\ framed' = {}
    /\ UNCHANGED <<cams, rec, sinks, saved, calls, cameras, returned,
                   alertVars, wsVars, sessions, ruleVars, faceVars, motionVars, matchVars>>

\* ------------------------------------------- CameraManager (201..237)
\* Camera.stop leaving the recorder alone
CameraStopKeepsRecording(cam, r, c, now, sk, sv) ==
    [cam |-> [cam EXCEPT
                !.is_running = FALSE,
                !.capture = IF /\ cam.kind = "rtsp"
                               /\ cam.is_running
                               /\ cam.capture # "none"
                            THEN "released" ELSE @],
     rec |-> r, sinks |-> sk, saved |-> sv]

\* Camera.stop (66..70 / 143..149)
CameraStop(cam, r, c, now, sk, sv) ==
    LET st == IF r.is_recording THEN RecorderStop(r, c, now, sk, sv)
              ELSE [rec |-> r, sinks |-> sk, saved |-> sv]
    IN  [cam |-> [cam EXCEPT
                    !.is_running = FALSE,
                    !.capture = IF /\ cam.kind = "rtsp"
                                   /\ cam.is_running
                                   /\ cam.capture # "none"
                                THEN "released" ELSE @],
         rec |-> st.rec, sinks |-> st.sinks, saved |-> st.saved]

\* the unchanged rest for the registry actions below
ManagerElse == <<clock, framed, calls, alertVars, wsVars, sessions, ruleVars, faceVars, motionVars, matchVars>>

\* add_camera registering the camera whether or not it started
AddCameraUnchecked(c, camera_type, opens, enable_face_detection) ==
    /\ IF c \in cameras \/ camera_type \notin {"rtsp", "mock"}
       THEN UNCHANGED <<cameras, cams, rec, returned>>
       ELSE /\ cameras' = cameras \cup {c}
            /\ cams' = Put(cams, c,
                  IF camera_type = "rtsp" /\ ~opens
                  THEN [NewCamera(camera_type, enable_face_detection)
                          EXCEPT !.is_running = FALSE, !.capture = "none"]
                  ELSE NewCamera(camera_type, enable_face_detection))
            /\ rec' = Put(rec, c, NewRecorder)
            /\ returned' = Put(returned, c, NoReturn)
    /\ UNCHANGED <<sinks, saved, ManagerElse>>

\* CameraManager.add_camera; opens: whether the RTSP capture opens
AddCamera(c, camera_type, opens, enable_face_detection) ==
    /\ IF \/ c \in cameras
          \/ camera_type \notin {"rtsp", "mock"}
          \/ (camera_type = "rtsp" /\ ~opens)
       THEN UNCHANGED <<cameras, cams, rec, returned>>
       ELSE /\ cameras' = cameras \cup {c}
            /\ cams' = Put(cams, c, NewCamera(camera_type, enable_face_detection))
            /\ rec' = Put(rec, c, NewRecorder)
            /\ returned' = Put(returned, c, NoReturn)
    /\ UNCHANGED <<sinks, saved, ManagerElse>>

\* CameraManager.remove_camera
RemoveCamera(c) ==
    /\ IF c \notin cameras
       THEN UNCHANGED <<cameras, cams, rec, sinks, saved>>
       ELSE LET out == CameraStop(cams[c], rec[c], c, clock, sinks, saved)
            IN  /\ cams' = [cams EXCEPT ![c] = out.cam]
                /\ rec' = [rec EXCEPT ![c] = out.rec]
                /\ sinks' = out.sinks
                /\ saved' = out.saved
                /\ cameras' = cameras \ {c}
    /\ UNCHANGED <<returned, ManagerElse>>

\* the stream of an RTSP camera goes away for good
SourceLost(c) ==
    /\ c \in DOMAIN cams
    /\ cams[c].capture = "open"
    /\ cams' = [cams EXCEPT ![c].capture = "lost"]
    /\ UNCHANGED <<cameras, rec, sinks, saved, returned, ManagerElse>>

FaceInputs == {<<>>, <<"alice">>, <<"Unknown">>}

AlertIdle ==
    /\ wall = 0
    /\ ticks = 0
    /\ configs = <<>>
    /\ throttles = EmptyTable
    /\ tasks = <<>>
    /\ notification_logs = <<>>

\* a camera registered and running, its Recorder about to be called
CameraInit ==
    /\ RestIdle
    /\ WsIdle
    /\ AlertIdle
    /\ clock = ClockStart
    /\ \E made \in {<<"mock", TRUE>>, <<"rtsp", FALSE>>} :
          cams = [c \in CameraNames |-> NewCamera(made[1], made[2])]
    /\ rec = [c \in CameraNames |-> NewRecorder]
    /\ sinks = <<>>
    /\ saved = <<>>
    /\ framed = {}
    /\ calls = NoCalls
    /\ cameras = CameraNames
    /\ returned = [c \in CameraNames |-> NoReturn]

\* manager = CameraManager(): no camera yet
ManagerInit ==
    /\ RestIdle
    /\ WsIdle
    /\ AlertIdle
    /\ clock = ClockStart
    /\ cams = EmptyTable
    /\ rec = EmptyTable
    /\ sinks = <<>>
    /\ saved = <<>>
    /\ framed = {}
    /\ calls = NoCalls
    /\ cameras = {}
    /\ returned = EmptyTable

CameraNext ==
    \/ \E c \in CameraIds, camera_type \in CameraTypes, opens \in BOOLEAN,
          enable_face_detection \in BOOLEAN :
            AddCamera(c, camera_type, opens, enable_face_detection)
    \/ \E c \in CameraIds : RemoveCamera(c)
    \/ \E c \in CameraIds : SourceLost(c)
    \/ \E c \in CameraIds, ret \in BOOLEAN, motion \in BOOLEAN,
          faces \in FaceInputs, opens \in BOOLEAN :
            GetFrame(c, ret, motion, faces, opens)
    \/ ClockTick

SpecCamera == ManagerInit /\ [][CameraNext]_vars

\* the consumers keep calling get_frame and time keeps passing; nothing
\* obliges anyone to call add_camera or remove_camera
SpecCameraFair ==
    /\ SpecCamera
    /\ WF_vars(ClockTick)
    /\ \A c \in CameraIds :
          WF_vars(\E ret \in BOOLEAN : GetFrame(c, ret, FALSE, <<>>, TRUE))

\* --------------------------------- a Recorder called directly (SpecRecorder)
RecorderVarsElse == <<cams, framed, cameras, returned, alertVars, wsVars, sessions, ruleVars, faceVars, motionVars, matchVars>>

StartCall(c, opens) ==
    /\ calls.n < MaxCalls
    /\ LET out == RecorderStart(rec[c], c, clock, opens, sinks)
       IN  rec' = [rec EXCEPT ![c] = out.rec] /\ sinks' = out.sinks
    /\ calls' = Called("start")
    /\ UNCHANGED <<clock, saved, RecorderVarsElse>>

WriteCall(c) ==
    /\ calls.n < MaxCalls
    /\ LET out == RecorderWrite(rec[c], sinks)
       IN  rec' = [rec EXCEPT ![c] = out.rec] /\ sinks' = out.sinks
    /\ calls' = Called("write")
    /\ UNCHANGED <<clock, saved, RecorderVarsElse>>

AddFaceCall(c, name) ==
    /\ calls.n < MaxCalls
    /\ rec' = [rec EXCEPT ![c] = RecorderAddFace(rec[c], name, clock)]
    /\ calls' = Called("add_face_detection")
    /\ UNCHANGED <<clock, sinks, saved, RecorderVarsElse>>

StopCall(c) ==
    /\ calls.n < MaxCalls
    /\ LET out == RecorderStop(rec[c], c, clock, sinks, saved)
       IN  rec' = [rec EXCEPT ![c] = out.rec] /\ sinks' = out.sinks
           /\ saved' = out.saved
    /\ calls' = Called("stop")
    /\ UNCHANGED <<clock, RecorderVarsElse>>

\* time passes between calls
CallTick ==
    /\ calls.n < MaxCalls
    /\ clock < ClockStart + MaxTicks
    /\ clock' = clock + 1
    /\ UNCHANGED <<rec, sinks, saved, calls, RecorderVarsElse>>

RecorderNext ==
    \/ \E c \in CameraNames, opens \in BOOLEAN : StartCall(c, opens)
    \/ \E c \in CameraNames : WriteCall(c)
    \/ \E c \in CameraNames, name \in {"alice", "Unknown"} : AddFaceCall(c, name)
    \/ \E c \in CameraNames : StopCall(c)
    \/ CallTick

SpecRecorder == CameraInit /\ [][RecorderNext]_vars

\* ------------------- the Recorders of two cameras (SpecRecorders)
\* two cameras constructed: each Camera.__init__ makes its own Recorder(),
\* both with output_dir "recordings"
RecordersInit ==
    /\ RestIdle
    /\ WsIdle
    /\ AlertIdle
    /\ clock = ClockStart
    /\ cams = [c \in CameraIds |-> NewCamera("mock", FALSE)]
    /\ rec = [c \in CameraIds |-> NewRecorder]
    /\ sinks = <<>>
    /\ saved = <<>>
    /\ framed = {}
    /\ calls = NoCalls
    /\ cameras = CameraIds
    /\ returned = [c \in CameraIds |-> NoReturn]

RecordersNext ==
    \/ \E c \in CameraIds, opens \in BOOLEAN : StartCall(c, opens)
    \/ \E c \in CameraIds : WriteCall(c)
    \/ \E c \in CameraIds : StopCall(c)
    \/ CallTick

SpecRecorders == RecordersInit /\ [][RecordersNext]_vars

\* ======================================================================
\* WebSocketConnectionManager (websocket_manager.py)
\* ======================================================================
Users == {1, 2}

\* values of the constructor argument max_connections_per_user
Caps == {1, 2}

\* exclude_connection_id = None
NoConn == 0

\* active_connections is a dict.  CPython keeps a dict as an array of
\* entries in insertion order; del leaves a dead entry in place and an
\* insertion of a new key appends (the array is not rebuilt before it
\* holds more than five entries, and MaxConnects keeps it below).
Present(d) == {i \in DOMAIN d : d[i].present}
DictLen(d) == Cardinality(Present(d))
DictKeys(d) == {d[i].id : i \in Present(d)}
DictGet(d, id) == d[CHOOSE i \in Present(d) : d[i].id = id]
DictDel(d, id) ==
    [i \in DOMAIN d |->
        IF d[i].present /\ d[i].id = id THEN [d[i] EXCEPT !.present = FALSE]
        ELSE d[i]]
DictPut(d, id, user_id) ==
    IF id \in DictKeys(d)
    THEN [i \in DOMAIN d |->
            IF d[i].present /\ d[i].id = id THEN [d[i] EXCEPT !.user_id = user_id]
            ELSE d[i]]
    ELSE Append(d, [id |-> id, user_id |-> user_id, present |-> TRUE])

\* len(self.user_connections.get(user_id, set()))
UserCount(uc, user_id) ==
    IF user_id \in DOMAIN uc THEN Cardinality(uc[user_id]) ELSE 0

\* the rate-limit test admitting one connection more
RateLimitedOver(uc, user_id, cap) == UserCount(uc, user_id) > cap

\* connect, the rate-limit test (80..81)
RateLimited(uc, user_id, cap) == UserCount(uc, user_id) >= cap

\* connect, after websocket.accept() returned (91..98)
Register(ac, uc, id, user_id) ==
    [ac |-> DictPut(ac, id, user_id),
     uc |-> IF user_id \in DOMAIN uc
            THEN [uc EXCEPT ![user_id] = @ \cup {id}]
            ELSE uc @@ (user_id :> {id})]

\* disconnect removing every connection of the connection's user
UnregisterUser(ac, uc, id) ==
    IF id \notin DictKeys(ac) THEN [ac |-> ac, uc |-> uc]
    ELSE LET user_id == DictGet(ac, id).user_id
         IN  [ac |-> [i \in DOMAIN ac |->
                        IF ac[i].user_id = user_id
                        THEN [ac[i] EXCEPT !.present = FALSE] ELSE ac[i]],
              uc |-> [u \in DOMAIN uc \ {user_id} |-> uc[u]]]

\* disconnect removing the connection from active_connections only
UnregisterDictOnly(ac, uc, id) ==
    IF id \notin DictKeys(ac) THEN [ac |-> ac, uc |-> uc]
    ELSE [ac |-> DictDel(ac, id), uc |-> uc]

\* disconnect, the body under the lock (114..124)
Unregister(ac, uc, id) ==
    IF id \notin DictKeys(ac) THEN [ac |-> ac, uc |-> uc]
    ELSE LET user_id == DictGet(ac, id).user_id
             uc1 == IF user_id \in DOMAIN uc
                    THEN [uc EXCEPT ![user_id] = @ \ {id}]
                    ELSE uc
             uc2 == IF user_id \in DOMAIN uc1 /\ uc1[user_id] = {}
                    THEN [u \in DOMAIN uc1 \ {user_id} |-> uc1[u]]
                    ELSE uc1
         IN  [ac |-> DictDel(ac, id), uc |-> uc2]

\* ------------------------------------------------------------ iterators
\* the iterator a for statement creates over a dict or a set holding the
\* keys `start`
NewIter(start) ==
    [pos |-> 0, used |-> Cardinality(start), len |-> Cardinality(start),
     start |-> start, seen |-> {}, detached |-> FALSE]

\* next() of a dict iterator (CPython dictiter_iternextitem): RuntimeError
\* when the dict's size is not the size at creation, the next live entry
\* after the position otherwise, RuntimeError again when an entry is found
\* after as many were yielded as the dict held at creation
DictNext(it, d) ==
    IF DictLen(d) # it.used THEN [kind |-> "error", id |-> NoConn, it |-> it]
    ELSE LET later == {i \in Present(d) : i > it.pos}
         IN  IF later = {} THEN [kind |-> "stop", id |-> NoConn, it |-> it]
             ELSE IF it.len = 0 THEN [kind |-> "error", id |-> NoConn, it |-> it]
             ELSE LET i == CHOOSE j \in later : \A k \in later : j <= k
                  IN  [kind |-> "yield", id |-> d[i].id,
                       it |-> [it EXCEPT !.pos = i, !.len = @ - 1,
                                         !.seen = @ \cup {d[i].id}]]

\* broadcast: for ... in self.active_connections.items(), the excluded
\* connection skipped with continue (keys are distinct: at most one skip)
ItemsNext(it, d, exclude) ==
    LET r == DictNext(it, d)
    IN  IF r.kind = "yield" /\ r.id = exclude /\ exclude # NoConn
        THEN DictNext(r.it, d) ELSE r

\* next() of a set iterator (CPython setiter_iternext) over a set whose
\* content is cur: RuntimeError when the size is not the size at
\* creation; otherwise slots are visited in hash order, which is not
\* known: any key not yet seen may come next, and the iteration may end
\* while the only unseen keys are ones added after its creation.
\* broadcast_to_user skips a key that is not in active_connections.
RECURSIVE UserNext(_, _, _)
UserNext(it, cur, d) ==
    IF Cardinality(cur) # it.used
    THEN {[kind |-> "error", id |-> NoConn, it |-> it]}
    ELSE UNION {IF id \in DictKeys(d)
                THEN {[kind |-> "yield", id |-> id,
                       it |-> [it EXCEPT !.seen = @ \cup {id}]]}
                ELSE UserNext([it EXCEPT !.seen = @ \cup {id}], cur, d)
                    : id \in cur \ it.seen}
         \cup (IF (cur \ it.seen) \cap it.start = {}
               THEN {[kind |-> "stop", id |-> NoConn, it |-> it]}
               ELSE {})

\* ------------------------------------------------------ broadcast calls
\* One call of broadcast ("all", arg = exclude_connection_id),
\* broadcast_to_user ("user", arg = user_id) or send_personal_message
\* ("personal", arg = connection_id).  by: "call" or "loop" (the
\* statistics loop).  pc: "send" awaiting connection.send_json(target),
\* "cleanup" about to disconnect the failed connections, "done" returned,
\* "aborted" left by an exception, "cancelled" left by CancelledError.
\* sent: the sends that returned.  cleaned: how many entries of
\* `disconnected` were passed to disconnect.  registered: the keys of
\* active_connections when the call began.  disturbed: another task
\* changed the indices while this call was in progress.
NewBroadcast(kind, arg, by, message, start, ac) ==
    [kind |-> kind, arg |-> arg, by |-> by, message |-> message,
     pc |-> "done", target |-> NoConn, it |-> NewIter(start),
     sent |-> <<>>, cleaned |-> 0, registered |-> DictKeys(ac),
     disturbed |-> FALSE]

BroadcastIds == DOMAIN broadcasts

\* the list `disconnected`
Disconnected(task) ==
    LET failed == SelectSeq(task.sent, LAMBDA r : ~r.ok)
    IN  [i \in DOMAIN failed |-> failed[i].id]

\* the set object a broadcast_to_user iterates: the user's set, or the
\* emptied set that disconnect removed from user_connections
IteratedSet(task, uc) ==
    IF task.it.detached \/ task.arg \notin DOMAIN uc THEN {} ELSE uc[task.arg]

\* what the for statement can do next
NextOutcomes(task, ac, uc) ==
    CASE task.kind = "all"  -> {ItemsNext(task.it, ac, task.arg)}
      [] task.kind = "user" -> UserNext(task.it, IteratedSet(task, uc), ac)
      [] OTHER              -> {[kind |-> "stop", id |-> NoConn, it |-> task.it]}

\* a broadcast that gives up delivery at the first failed send
EnterFailFast(task, r) ==
    IF task.sent # <<>> /\ ~task.sent[Len(task.sent)].ok
    THEN [task EXCEPT !.pc = "cleanup", !.target = NoConn]
    ELSE CASE r.kind = "yield" ->
                [task EXCEPT !.pc = "send", !.target = r.id, !.it = r.it]
           [] r.kind = "error" ->
                [task EXCEPT !.pc = "aborted", !.target = NoConn, !.it = r.it]
           [] OTHER ->
                [task EXCEPT !.pc = IF Disconnected(task) = <<>> THEN "done"
                                    ELSE "cleanup",
                             !.target = NoConn, !.it = r.it]

\* the call runs on to its next await, its return or its exception
Enter(task, r) ==
    CASE r.kind = "yield" ->
            [task EXCEPT !.pc = "send", !.target = r.id, !.it = r.it]
      [] r.kind = "error" ->
            [task EXCEPT !.pc = "aborted", !.target = NoConn, !.it = r.it]
      [] OTHER ->
            [task EXCEPT !.pc = IF Disconnected(task) = <<>> THEN "done"
                                ELSE "cleanup",
                         !.target = NoConn, !.it = r.it]

\* the call from its first statement to its first await
Begun(kind, arg, by, message, ac, uc) ==
    CASE kind = "all" ->
            LET fresh == NewBroadcast(kind, arg, by, message, DictKeys(ac), ac)
            IN  {Enter(fresh, r) : r \in NextOutcomes(fresh, ac, uc)}
      [] kind = "user" ->
            IF arg \notin DOMAIN uc
            THEN {NewBroadcast(kind, arg, by, message, {}, ac)}
            ELSE LET fresh == NewBroadcast(kind, arg, by, message, uc[arg], ac)
                 IN  {Enter(fresh, r) : r \in NextOutcomes(fresh, ac, uc)}
      [] OTHER ->
            IF arg \notin DictKeys(ac)
            THEN {NewBroadcast(kind, arg, by, message, {}, ac)}
            ELSE {[NewBroadcast(kind, arg, by, message, {arg}, ac)
                     EXCEPT !.pc = "send", !.target = arg]}

\* the calls in progress see that another task changed the indices; a
\* broadcast_to_user whose user lost the last connection keeps iterating
\* the set object that was removed
Touch(bs, uc0, uc1, self) ==
    [i \in DOMAIN bs |->
        IF i = self \/ bs[i].pc \notin {"send", "cleanup"} THEN bs[i]
        ELSE [bs[i] EXCEPT
                !.disturbed = TRUE,
                !.it.detached = @ \/ ( /\ bs[i].kind = "user"
                                       /\ bs[i].arg \in DOMAIN uc0
                                       /\ bs[i].arg \notin DOMAIN uc1 )]]

\* a loop without the except Exception clause: an exception leaving the
\* broadcast ends the task
LoopAfterUncaught(b, task) ==
    IF task.by = "loop" /\ task.pc = "aborted" THEN [b EXCEPT !.pc = "ended"]
    ELSE IF task.by = "loop" /\ task.pc = "done"
         THEN [b EXCEPT !.pc = "sleep", !.slept = 0] ELSE b

\* _broadcast_loop after broadcast_statistics_update returned or raised
\* an Exception (72..77): on to asyncio.sleep
LoopAfter(b, task) ==
    IF task.by = "loop" /\ task.pc \in {"done", "aborted"}
    THEN [b EXCEPT !.pc = "sleep", !.slept = 0] ELSE b

\* ---------------------------------------------------------------- actions
wsElse == <<alertVars, camVars, sessions, ruleVars, faceVars, motionVars, matchVars>>

\* the socket of one connect call: "rejected" (connect returned False and
\* the route closes it), "accepting" (websocket.accept() awaited), "open"
\* (accepted and registered), "failed" (accept raised)
Socket(user_id, state) == [user_id |-> user_id, state |-> state]

\* connect up to websocket.accept(): the route generated a fresh id; the
\* coroutine takes _lock (it waits while another connect holds it)
ConnectEnter(user_id) ==
    /\ accepting = <<>>
    /\ uuids < MaxConnects
    /\ uuids' = uuids + 1
    /\ IF RateLimited(user_connections, user_id, max_connections_per_user)
       THEN /\ sockets' = sockets @@ (uuids' :> Socket(user_id, "rejected"))
            /\ UNCHANGED accepting
       ELSE /\ sockets' = sockets @@ (uuids' :> Socket(user_id, "accepting"))
            /\ accepting' = <<[id |-> uuids', user_id |-> user_id]>>
    /\ UNCHANGED <<max_connections_per_user, active_connections,
                   user_connections, broadcasts, broadcaster, wsElse>>

\* websocket.accept() returns (ok) or raises; the lock is released
ConnectAccept(ok) ==
    /\ accepting # <<>>
    /\ LET c   == accepting[1]
           reg == Register(active_connections, user_connections, c.id, c.user_id)
       IN  IF ok
           THEN /\ active_connections' = reg.ac
                /\ user_connections' = reg.uc
                /\ sockets' = [sockets EXCEPT ![c.id].state = "open"]
                /\ broadcasts' = Touch(broadcasts, user_connections, reg.uc, 0)
           ELSE /\ sockets' = [sockets EXCEPT ![c.id].state = "failed"]
                /\ UNCHANGED <<active_connections, user_connections, broadcasts>>
    /\ accepting' = <<>>
    /\ UNCHANGED <<max_connections_per_user, uuids, broadcaster, wsElse>>

\* disconnect(id) of any id ever generated, registered or not
Disconnect(id) ==
    /\ accepting = <<>>
    /\ LET out == Unregister(active_connections, user_connections, id)
       IN  /\ active_connections' = out.ac
           /\ user_connections' = out.uc
           /\ broadcasts' = IF id \in DictKeys(active_connections)
                            THEN Touch(broadcasts, user_connections, out.uc, 0)
                            ELSE broadcasts
    /\ UNCHANGED <<max_connections_per_user, accepting, uuids, sockets,
                   broadcaster, wsElse>>

\* a caller starts broadcast / broadcast_to_user / send_personal_message
BroadcastStart(kind, arg) ==
    /\ Len(broadcasts) < MaxBroadcasts
    /\ \E task \in Begun(kind, arg, "call", "event",
                         active_connections, user_connections) :
          broadcasts' = Append(broadcasts, task)
    /\ UNCHANGED <<max_connections_per_user, active_connections,
                   user_connections, accepting, uuids, sockets,
                   broadcaster, wsElse>>

\* connection.send_json(target) returns (ok) or raises an Exception, and
\* the call runs on to its next await
BroadcastStep(t, ok) ==
    /\ broadcasts[t].pc = "send"
    /\ LET task == [broadcasts[t] EXCEPT
                      !.sent = Append(@, [id |-> broadcasts[t].target, ok |-> ok])]
       IN  \E r \in NextOutcomes(task, active_connections, user_connections) :
              /\ broadcasts' = [broadcasts EXCEPT ![t] = Enter(task, r)]
              /\ broadcaster' = LoopAfter(broadcaster, Enter(task, r))
    /\ UNCHANGED <<max_connections_per_user, active_connections,
                   user_connections, accepting, uuids, sockets, wsElse>>

\* for connection_id in disconnected: await self.disconnect(connection_id)
\* -- one disconnect, which takes _lock; the call returns after the last
BroadcastCleanup(t) ==
    /\ broadcasts[t].pc = "cleanup"
    /\ accepting = <<>>
    /\ LET failed == Disconnected(broadcasts[t])
           n      == broadcasts[t].cleaned + 1
           out    == Unregister(active_connections, user_connections, failed[n])
           task   == [broadcasts[t] EXCEPT
                        !.cleaned = n,
                        !.pc = IF n = Len(failed) THEN "done" ELSE "cleanup"]
       IN  /\ active_connections' = out.ac
           /\ user_connections' = out.uc
           /\ broadcasts' = [Touch(broadcasts, user_connections, out.uc, t)
                               EXCEPT ![t] = task]
           /\ broadcaster' = LoopAfter(broadcaster, task)
    /\ UNCHANGED <<max_connections_per_user, accepting, uuids, sockets, wsElse>>

WsStarts ==
    {<<"all", NoConn>>, <<"all", 1>>, <<"user", 1>>, <<"user", 2>>,
     <<"personal", 1>>}

WsInit ==
    /\ RestIdle
    /\ AlertIdle
    /\ CamIdle
    /\ max_connections_per_user \in Caps
    /\ active_connections = <<>>
    /\ user_connections = EmptyTable
    /\ accepting = <<>>
    /\ uuids = 0
    /\ sockets = EmptyTable
    /\ broadcasts = <<>>
    /\ broadcaster = NoBroadcaster

WsNext ==
    \/ \E user_id \in Users : ConnectEnter(user_id)
    \/ \E ok \in BOOLEAN : ConnectAccept(ok)
    \/ \E id \in 1..uuids : Disconnect(id)
    \/ \E st \in WsStarts : BroadcastStart(st[1], st[2])
    \/ \E t \in BroadcastIds, ok \in BOOLEAN : BroadcastStep(t, ok)
    \/ \E t \in BroadcastIds : BroadcastCleanup(t)

SpecWs == WsInit /\ [][WsNext]_vars

\* ======================================================================
\* StatisticsBroadcaster (statistics_broadcaster.py)
\* ======================================================================
\* get_broadcaster: StatisticsBroadcaster(interval=5), seconds
interval == 5

\* broadcaster.pc, the position of the task running _broadcast_loop:
\* "none" no task was created, "head" created and not yet run, "broadcast"
\* inside broadcast_statistics_update, "sleep" inside asyncio.sleep with
\* `slept` seconds gone, "ended" returned.
\* the loop's broadcast call that has not returned
LoopTasks ==
    {t \in BroadcastIds : /\ broadcasts[t].by = "loop"
                          /\ broadcasts[t].pc \in {"send", "cleanup"}}

\* start()
BroadcasterStart ==
    /\ ~broadcaster.is_running
    /\ broadcaster' = [broadcaster EXCEPT !.is_running = TRUE, !.pc = "head",
                                          !.slept = 0]
    /\ UNCHANGED <<max_connections_per_user, active_connections,
                   user_connections, accepting, uuids, sockets, broadcasts,
                   wsElse>>

\* one pass of the while body up to its first suspension: the task was
\* just created or asyncio.sleep returned; is_running is tested;
\* _collect_statistics returns the statistics or, after catching its own
\* failure, the error dict; broadcast_statistics_update runs to its first
\* await, its return or its exception, and a return or an Exception takes
\* the loop on to asyncio.sleep
BroadcastLoop(fails) ==
    /\ broadcaster.is_running
    /\ \/ broadcaster.pc = "head"
       \/ broadcaster.pc = "sleep" /\ broadcaster.slept = interval
    /\ broadcaster.iterations < MaxIterations
    /\ \E task \in Begun("all", NoConn, "loop",
                         IF fails THEN "error" ELSE "statistics",
                         active_connections, user_connections) :
          /\ broadcasts' = Append(broadcasts, task)
          /\ broadcaster' =
                [broadcaster EXCEPT
                    !.pc = IF task.pc \in {"done", "aborted"} THEN "sleep"
                           ELSE "broadcast",
                    !.slept = 0,
                    !.iterations = @ + 1]
    /\ UNCHANGED <<max_connections_per_user, active_connections,
                   user_connections, accepting, uuids, sockets, wsElse>>

\* a second passes while the loop is in asyncio.sleep(self.interval)
SleepTick ==
    /\ broadcaster.pc = "sleep"
    /\ broadcaster.slept < interval
    /\ broadcaster' = [broadcaster EXCEPT !.slept = @ + 1]
    /\ UNCHANGED <<max_connections_per_user, active_connections,
                   user_connections, accepting, uuids, sockets, broadcasts,
                   wsElse>>

\* stop(): is_running = False, task.cancel(), await task.  stop runs while
\* the loop task is suspended: not yet started, in send_json, waiting for
\* _lock in disconnect, or in asyncio.sleep.  CancelledError is raised at
\* that await; it is not an Exception, so neither send_json's nor
\* broadcast's handler catches it, and the loop's handlers break.
BroadcasterStop ==
    /\ broadcaster.is_running
    /\ \A t \in LoopTasks : broadcasts[t].pc = "cleanup" => accepting # <<>>
    /\ broadcaster' = [broadcaster EXCEPT !.is_running = FALSE, !.pc = "ended"]
    /\ broadcasts' = [t \in DOMAIN broadcasts |->
                        IF t \in LoopTasks
                        THEN [broadcasts[t] EXCEPT !.pc = "cancelled"]
                        ELSE broadcasts[t]]
    /\ UNCHANGED <<max_connections_per_user, active_connections,
                   user_connections, accepting, uuids, sockets, wsElse>>

\* the process after import: ws_manager and the broadcaster singletons
StatsInit ==
    /\ RestIdle
    /\ AlertIdle
    /\ CamIdle
    /\ WsIdle

StatsNext ==
    \/ BroadcasterStart
    \/ \E fails \in BOOLEAN : BroadcastLoop(fails)
    \/ SleepTick
    \/ BroadcasterStop
    \/ \E user_id \in Users : uuids < StatsConnects /\ ConnectEnter(user_id)
    \/ \E ok \in BOOLEAN : ConnectAccept(ok)
    \/ \E id \in 1..uuids : Disconnect(id)
    \/ \E t \in BroadcastIds, ok \in BOOLEAN : BroadcastStep(t, ok)
    \/ \E t \in BroadcastIds : BroadcastCleanup(t)

SpecStats == StatsInit /\ [][StatsNext]_vars

\* the event loop runs every ready task and the awaited operations end:
\* the timer of asyncio.sleep fires, send_json and accept return or raise,
\* a disconnect waiting for _lock gets it
SpecStatsFair ==
    /\ SpecStats
    /\ WF_vars(\E fails \in BOOLEAN : BroadcastLoop(fails))
    /\ WF_vars(SleepTick)
    /\ WF_vars(\E ok \in BOOLEAN : ConnectAccept(ok))
    /\ WF_vars(\E t \in BroadcastIds, ok \in BOOLEAN : BroadcastStep(t, ok))
    /\ WF_vars(\E t \in BroadcastIds : BroadcastCleanup(t))

\* ======================================================================
\* Properties of the alert dispatcher (checked under SpecAlert)
\* ======================================================================
Last(s) == s[Len(s)]

CountIn(s, P(_)) == Cardinality({i \in DOMAIN s : P(s[i])})

\* the step is a loop iteration of task t that reached the throttle gate
Gated(t) ==
    /\ tasks[t].pc \in {"start", "loop"}
    /\ Len(tasks'[t].verdicts) = Len(tasks[t].verdicts) + 1

\* all gate outcomes so far: task, throttle key, interval, outcome, time
Outcomes ==
    UNION {{[task |-> t, iter |-> i, key |-> ThrottleKey(tasks[t].event),
             min |-> MinSeconds(tasks[t].event,
                                configs[tasks[t].verdicts[i].config]),
             config |-> tasks[t].verdicts[i].config,
             verdict |-> tasks[t].verdicts[i].verdict,
             at |-> tasks[t].verdicts[i].at] :
                i \in DOMAIN tasks[t].verdicts} : t \in TaskIds}

\* C1: the first call for a key is allowed and creates its row with count
\* 1 and last_alert_time = now; a later call is allowed iff
\* now - last_alert_time >= min_seconds; an allowed call sets
\* last_alert_time to now and adds one to the count; and a row changes
\* only by an allowed call for its key, so last_alert_time is the time of
\* the most recent allowed call.
C1_ThrottleRule ==
    [][/\ \A t \in TaskIds : Gated(t) =>
            LET key     == ThrottleKey(tasks[t].event)
                out     == Last(tasks'[t].verdicts)
                min     == MinSeconds(tasks[t].event, configs[out.config])
                allowed == out.verdict # "throttled"
            IN  IF key \notin DOMAIN throttles
                THEN /\ allowed
                     /\ key \in DOMAIN throttles'
                     /\ throttles'[key] = [last_alert_time |-> wall, alert_count |-> 1]
                ELSE /\ allowed <=> (wall - throttles[key].last_alert_time >= min)
                     /\ allowed => throttles'[key] =
                            [last_alert_time |-> wall,
                             alert_count |-> throttles[key].alert_count + 1]
       /\ \A k \in DOMAIN throttles' :
            (k \notin DOMAIN throttles \/ throttles'[k] # throttles[k]) =>
                \E t \in TaskIds : /\ Gated(t)
                                   /\ ThrottleKey(tasks[t].event) = k
                                   /\ Last(tasks'[t].verdicts).verdict # "throttled"
       /\ DOMAIN throttles \subseteq DOMAIN throttles'
      ]_vars

\* a key was allowed, denied within the interval and allowed again later
C1_Witness ==
    \E a, b, c \in Outcomes :
        /\ a.key = b.key /\ b.key = c.key
        /\ a.verdict # "throttled" /\ b.verdict = "throttled" /\ c.verdict # "throttled"
        /\ a.at <= b.at /\ b.at < c.at
        /\ throttles[a.key].alert_count = 2

\* C2: in every interleaving of the trigger tasks, two calls that passed
\* the throttle gate for the same key are at least the later call's
\* min_seconds apart: no two triggers inside one interval both pass.
C2_GateAtomic ==
    \A a, b \in Outcomes :
        ( /\ <<a.task, a.iter>> # <<b.task, b.iter>>
          /\ a.key = b.key
          /\ a.verdict # "throttled" /\ b.verdict # "throttled"
          /\ a.at <= b.at )
        => b.at - a.at >= b.min

\* two tasks for one key are in flight at once; one passed, one was denied
C2_Witness ==
    \E a, b \in Outcomes :
        /\ a.task # b.task /\ a.key = b.key
        /\ a.verdict = "send" /\ b.verdict = "throttled"
        /\ tasks[a.task].pc \in Range(Channels)
        /\ b.at - a.at < b.min

\* C3: a throttled call changes nothing: the alert_throttles table, the
\* notification log and the task's sends are as before, and the task
\* goes on to the next configuration without entering _send_notifications.
C3_DeniedNoChange ==
    [][\A t \in TaskIds :
          (Gated(t) /\ Last(tasks'[t].verdicts).verdict = "throttled") =>
              /\ throttles' = throttles
              /\ notification_logs' = notification_logs
              /\ tasks'[t].sent = tasks[t].sent
              /\ tasks'[t].pending = tasks[t].pending
              /\ tasks'[t].pc \in {"loop", "done"}
      ]_vars

\* a call was throttled while rows of two keys exist
C3_Witness ==
    /\ Cardinality(DOMAIN throttles) >= 2
    /\ \E a \in Outcomes : a.verdict = "throttled"

\* C4: an event suppressed by quiet hours leaves the alert_throttles table
\* as it was.
C4_QuietLeavesThrottle ==
    [][\A t \in TaskIds :
          (Gated(t) /\ Last(tasks'[t].verdicts).verdict = "quiet") =>
              throttles' = throttles
      ]_vars

NightStart == 22 * 3600
NightEnd   == 7 * 3600

\* the sends and the log rows of one loop iteration
SendsOf(o, ch) ==
    CountIn(tasks[o.task].sent, LAMBDA r : r.config = o.config /\ r.channel = ch)
LogsOf(o, ch) ==
    CountIn(notification_logs,
            LAMBDA r : r.task = o.task /\ r.config = o.config /\ r.channel = ch)
    + CountIn(tasks[o.task].pending,
            LAMBDA r : r.task = o.task /\ r.config = o.config /\ r.channel = ch)

\* C5: with the overnight window 22:00-07:00 enabled, an event that
\* reaches the quiet-hours gate after 22:00 or before 07:00 is suppressed
\* and one strictly between 07:00 and 22:00 is not; a suppressed event
\* causes no send and no NotificationLog; a configuration with quiet hours
\* disabled never suppresses.
C5_QuietHours ==
    \A o \in Outcomes :
        LET cfg == configs[o.config]
            tod == TimeOfDay(o.at)
        IN  /\ (cfg = CfgNight /\ o.verdict # "throttled") =>
                /\ (tod > NightStart \/ tod < NightEnd) => o.verdict = "quiet"
                /\ (tod > NightEnd /\ tod < NightStart) => o.verdict = "send"
            /\ o.verdict = "quiet" =>
                \A ch \in Range(Channels) : SendsOf(o, ch) = 0 /\ LogsOf(o, ch) = 0
            /\ ~cfg.quiet_hours_enabled => o.verdict # "quiet"

\* an event was suppressed at 03:00 under the overnight window and the
\* task has finished
C5_Witness ==
    \E o \in Outcomes :
        /\ configs[o.config] = CfgNight
        /\ o.verdict = "quiet"
        /\ TimeOfDay(o.at) = 3 * 3600
        /\ tasks[o.task].pc = "done"

DayStart == 12 * 3600
DayEnd   == 12 * 3600 + 5 * 60

\* the time of day is inside the closed window [s, e] (overnight if s > e)
InClosed(tod, s, e) == IF s > e THEN tod >= s \/ tod <= e ELSE s <= tod /\ tod <= e

\* the time of day is inside the half-open window [s, e)
InHalfOpen(tod, s, e) == IF s > e THEN tod >= s \/ tod < e ELSE s <= tod /\ tod < e

WindowOf(cfg) ==
    IF cfg = CfgNight THEN <<NightStart, NightEnd>> ELSE <<DayStart, DayEnd>>

\* C6 as stated: the window is [start, end): an event that reaches the
\* quiet-hours gate is suppressed iff start <= now < end.
C6_HalfOpen ==
    \A o \in Outcomes :
        LET cfg == configs[o.config]
        IN  (cfg \in {CfgNight, CfgDay} /\ o.verdict # "throttled") =>
                (o.verdict = "quiet" <=>
                    InHalfOpen(TimeOfDay(o.at), WindowOf(cfg)[1], WindowOf(cfg)[2]))

\* C6 amended: the window is the closed interval [start, end]: an event
\* exactly at start and an event exactly at end are both suppressed, and
\* any time after end (before start) is not.
C6_Closed ==
    \A o \in Outcomes :
        LET cfg == configs[o.config]
        IN  (cfg \in {CfgNight, CfgDay} /\ o.verdict # "throttled") =>
                (o.verdict = "quiet" <=>
                    InClosed(TimeOfDay(o.at), WindowOf(cfg)[1], WindowOf(cfg)[2]))

\* an event reached the quiet-hours gate exactly at the end of the window
C6_Witness ==
    \E o \in Outcomes :
        /\ configs[o.config] \in {CfgNight, CfgDay}
        /\ o.verdict = "quiet"
        /\ TimeOfDay(o.at) = WindowOf(configs[o.config])[2]

\* the loop iteration o has left _send_notifications
Completed(o) ==
    \/ o.iter < Len(tasks[o.task].verdicts)
    \/ tasks[o.task].pc \in {"loop", "done"}

\* C7: for an event that passed both gates, each channel that is enabled
\* and has a recipient gets exactly one send and every other channel
\* none, whatever the other sends returned; each send yields exactly one
\* NotificationLog with that send's result.
C7_Fanout ==
    \A o \in Outcomes :
        LET cfg == configs[o.config]
            due == [ch \in Range(Channels) |->
                      CASE ch = "email"   -> cfg.email_enabled /\ cfg.email_address # ""
                        [] ch = "sms"     -> cfg.sms_enabled /\ cfg.phone_number # ""
                        [] ch = "push"    -> cfg.push_enabled /\ cfg.push_token # ""
                        [] ch = "webhook" -> cfg.webhook_enabled /\ cfg.webhook_url # ""]
        IN  \A ch \in Range(Channels) :
              /\ SendsOf(o, ch) <= (IF due[ch] /\ o.verdict = "send" THEN 1 ELSE 0)
              /\ LogsOf(o, ch) = SendsOf(o, ch)
              /\ (o.verdict = "send" /\ Completed(o)) =>
                    /\ SendsOf(o, ch) = (IF due[ch] THEN 1 ELSE 0)
                    /\ \A r \in Range(tasks[o.task].sent) :
                          (r.config = o.config /\ r.channel = ch) =>
                              \E l \in Range(notification_logs) :
                                  /\ l.task = o.task /\ l.config = o.config
                                  /\ l.channel = ch
                                  /\ l.sent_successfully = r.ok

\* an event's fanout is complete with one failed and one successful send
C7_Witness ==
    \E o \in Outcomes :
        /\ o.verdict = "send" /\ Completed(o)
        /\ \E r1, r2 \in Range(tasks[o.task].sent) :
              /\ r1.config = o.config /\ r2.config = o.config
              /\ ~r1.ok /\ r2.ok
        /\ Len(notification_logs) >= 2

\* ======================================================================
\* Properties of the recorder and the frame loop
\* ======================================================================
\* the VideoWriters of recorder c that are open and not released
ActiveSinks(c) ==
    {i \in DOMAIN sinks :
        sinks[i].owner = c /\ sinks[i].opened /\ ~sinks[i].released}

\* the sessions recorder c has started / has closed
Opened(c) == {i \in DOMAIN sinks : sinks[i].owner = c /\ sinks[i].opened}
Closed(c) == {i \in DOMAIN saved : saved[i].owner = c}

\* C8: a recorder has at most one active session, which is the one its
\* fields describe, and Recorder.start on a recorder that is recording
\* opens no sink and changes nothing.
C8_OneSession ==
    [][\A c \in CameraNames :
          /\ Cardinality(ActiveSinks(c))' <= 1
          /\ rec'[c].is_recording =>
                /\ ActiveSinks(c)' = {rec'[c].writer}
                /\ sinks'[rec'[c].writer].frames = rec'[c].frame_count
          /\ ~rec'[c].is_recording => ActiveSinks(c)' = {}
          /\ (rec[c].is_recording /\ calls'.n > calls.n /\ calls'.last = "start") =>
                UNCHANGED <<rec, sinks, saved>>
      ]_vars

\* start was called on a recorder that is recording, has written frames
\* and holds an observation
C8_Witness ==
    \E c \in CameraNames :
        /\ rec[c].is_recording
        /\ rec[c].frame_count >= 2
        /\ Len(rec[c].detected_faces) >= 1
        /\ calls.last = "start"
        /\ Len(sinks) = 1

\* the step processes a frame of camera c whose motion flag is motion
Processed(c, motion) ==
    /\ c \in DOMAIN cams
    /\ cams[c].is_running
    /\ \E faces \in FaceInputs, opens \in BOOLEAN :
          GetFrame(c, TRUE, motion, faces, opens)

\* C9: a frame closes the session iff a session is active, the frame has
\* no motion and more than the cooldown has passed since the last motion
\* frame; every motion frame restarts the cooldown and no other frame
\* touches it; only a frame closes a session; and, motion ceasing after
\* MotionHorizon while frames keep being processed, an active session is
\* eventually closed.
C9_Cooldown ==
    /\ [][\A c \in DOMAIN cams :
            /\ \A motion \in BOOLEAN : Processed(c, motion) =>
                  /\ (rec[c].is_recording /\ ~rec'[c].is_recording) <=>
                        ( /\ rec[c].is_recording
                          /\ ~motion
                          /\ clock - cams[c].last_motion_time
                                > post_motion_cooldown * TicksPerSecond )
                  /\ cams'[c].last_motion_time =
                        IF motion THEN clock ELSE cams[c].last_motion_time
            /\ (rec[c].is_recording /\ ~rec'[c].is_recording) =>
                  \E motion \in BOOLEAN : Processed(c, motion)
       ]_vars
    /\ \A c \in CameraIds :
          (c \in DOMAIN rec /\ rec[c].is_recording)
              ~> ~(c \in DOMAIN rec /\ rec[c].is_recording)

\* C10: sessions of a camera are created one at a time.  A sink is opened
\* only by a motion frame that finds no session active, and when it opens
\* the session starts at that frame; while the session is active every
\* frame with motion or inside the cooldown keeps that same session and
\* opens nothing; the closing frame writes the summary of exactly that
\* session; so a burst of motion followed by silence longer than the
\* cooldown yields exactly one session, from its first motion frame to
\* the closing frame.
C10_OneSessionPerBurst ==
    [][\A c \in DOMAIN cams :
          /\ Cardinality(Opened(c))' =
                Cardinality(Closed(c))' + (IF rec'[c].is_recording THEN 1 ELSE 0)
          /\ Len(sinks') > Len(sinks) =>
                /\ Len(sinks') = Len(sinks) + 1
                /\ Processed(c, TRUE)
                /\ ~rec[c].is_recording
                /\ Last(sinks').opened =>
                      /\ rec'[c].is_recording
                      /\ rec'[c].recording_start_time = clock
                      /\ rec'[c].writer = Len(sinks')
          /\ \A opens \in BOOLEAN :
                ( /\ ~rec[c].is_recording /\ cams[c].is_running
                  /\ \E faces \in FaceInputs : GetFrame(c, TRUE, TRUE, faces, opens) )
                => /\ Len(sinks') = Len(sinks) + 1
                   /\ Last(sinks').opened = opens
          /\ \A motion \in BOOLEAN :
                ( /\ rec[c].is_recording /\ Processed(c, motion)
                  /\ (motion \/ clock - cams[c].last_motion_time
                                   <= post_motion_cooldown * TicksPerSecond) )
                => /\ rec'[c].is_recording
                   /\ rec'[c].writer = rec[c].writer
                   /\ rec'[c].recording_start_time = rec[c].recording_start_time
                   /\ rec'[c].frame_count = rec[c].frame_count + 1
                   /\ Len(sinks') = Len(sinks)
                   /\ saved' = saved
          /\ (rec[c].is_recording /\ ~rec'[c].is_recording) =>
                /\ Len(saved') = Len(saved) + 1
                /\ Last(saved').owner = c
                /\ Last(saved').started_at = rec[c].recording_start_time
                /\ Last(saved').ended_at = clock
                /\ Last(saved').frame_count = rec[c].frame_count + 1
                /\ sinks'[rec[c].writer].released
      ]_vars

\* the alert tasks created by the step
NewTasks == {tasks'[i] : i \in (Len(tasks) + 1)..Len(tasks')}

\* C11: every Idle -> Recording transition of a camera creates a
\* "recording started" alert for that camera and every Recording -> Idle
\* transition a "recording stopped" alert.
C11_RecordingAlerts ==
    [][\A c \in DOMAIN cams :
          /\ (~rec[c].is_recording /\ rec'[c].is_recording) =>
                \E t \in NewTasks :
                    t.event = RecordingEvent(CameraId(cams[c]), TRUE)
          /\ (rec[c].is_recording /\ ~rec'[c].is_recording) =>
                \E t \in NewTasks :
                    t.event = RecordingEvent(CameraId(cams[c]), FALSE)
      ]_vars

\* C12: a motion frame whose VideoWriter does not open leaves the
\* recorder idle: no session, nothing written, counted or saved, the
\* unopened writer never receives a frame and is never released; and any
\* later motion frame of the idle recorder creates a writer again and,
\* when that one opens, starts a session at that frame with the frame
\* written.
C12_SinkFailure ==
    [][\A c \in DOMAIN cams :
          /\ \A i \in DOMAIN sinks' :
                ~sinks'[i].opened => sinks'[i].frames = 0 /\ ~sinks'[i].released
          /\ \A opens \in BOOLEAN :
                ( /\ ~rec[c].is_recording /\ cams[c].is_running
                  /\ \E faces \in FaceInputs : GetFrame(c, TRUE, TRUE, faces, opens) )
                => /\ Len(sinks') = Len(sinks) + 1
                   /\ Last(sinks').owner = c
                   /\ SubSeq(sinks', 1, Len(sinks)) = sinks
                   /\ IF opens
                      THEN /\ rec'[c].is_recording
                           /\ rec'[c].writer = Len(sinks')
                           /\ rec'[c].recording_start_time = clock
                           /\ rec'[c].frame_count = 1
                           /\ Last(sinks').frames = 1
                      ELSE /\ ~rec'[c].is_recording
                           /\ rec'[c].frame_count = 0
                           /\ rec'[c].detected_faces = <<>>
                           /\ rec'[c].recording_start_time = NoTime
                           /\ ActiveSinks(c)' = {}
                           /\ saved' = saved
      ]_vars

\* ======================================================================
\* Properties of the WebSocket connection manager
\* ======================================================================
\* the connections of a user in active_connections
ConnectionsOf(ac, user_id) ==
    {ac[i].id : i \in {j \in Present(ac) : ac[j].user_id = user_id}}

\* C14: in every state reached under concurrent connect, disconnect and
\* broadcast calls each user has at most max_connections_per_user
\* registered connections in both indices; a connect is rejected exactly
\* when the user already holds that many, and a rejected connect never
\* calls websocket.accept() and never registers the socket.
C14_ConnectionCap ==
    [][/\ \A u \in Users :
            /\ UserCount(user_connections', u) <= max_connections_per_user'
            /\ Cardinality(ConnectionsOf(active_connections', u))
                  <= max_connections_per_user'
       /\ \A id \in DOMAIN sockets' \ DOMAIN sockets :
            /\ sockets'[id].state \in {"rejected", "accepting"}
            /\ sockets'[id].state = "rejected" <=>
                  UserCount(user_connections, sockets'[id].user_id)
                      >= max_connections_per_user
            /\ sockets'[id].state = "rejected" => accepting' = accepting
       /\ \A id \in DOMAIN sockets :
            sockets[id].state = "rejected" =>
                /\ sockets'[id] = sockets[id]
                /\ id \notin DictKeys(active_connections')
      ]_vars

\* a user holds the cap of two connections, a further connect of that
\* user was rejected, and a broadcast is in progress
C14_Witness ==
    /\ max_connections_per_user = 2
    /\ \E id \in DOMAIN sockets :
          /\ sockets[id].state = "rejected"
          /\ UserCount(user_connections, sockets[id].user_id) = 2
    /\ \E t \in BroadcastIds : broadcasts[t].pc = "send"

\* C15: a rejected connect leaves both indices as they were; disconnect(id)
\* removes id from both indices and leaves every other entry, the same
\* user's other connections included, as it was; disconnect of an id that
\* is not registered changes nothing.
C15_FrameEffect ==
    [][/\ \A id \in DOMAIN sockets' \ DOMAIN sockets :
            sockets'[id].state = "rejected" =>
                UNCHANGED <<active_connections, user_connections>>
       /\ \A id \in 1..uuids :
            /\ id \notin DictKeys(active_connections) =>
                  Unregister(active_connections, user_connections, id)
                      = [ac |-> active_connections, uc |-> user_connections]
            /\ Disconnect(id) =>
                  /\ DictKeys(active_connections')
                        = DictKeys(active_connections) \ {id}
                  /\ \A i \in DOMAIN active_connections :
                        active_connections[i].id # id =>
                            active_connections'[i] = active_connections[i]
                  /\ \A u \in Users :
                        /\ ConnectionsOf(active_connections', u)
                              = ConnectionsOf(active_connections, u) \ {id}
                        /\ UserCount(user_connections', u) =
                              Cardinality(ConnectionsOf(active_connections, u) \ {id})
                        /\ u \in DOMAIN user_connections' =>
                              user_connections'[u] = user_connections[u] \ {id}
      ]_vars

\* with no broadcast made: a connect was rejected, and one of two
\* connections of a user was disconnected while its sibling is registered
C15_Witness ==
    /\ broadcasts = <<>>
    /\ \E a, b, c \in DOMAIN sockets :
          /\ sockets[a].state = "open" /\ a \notin DictKeys(active_connections)
          /\ b \in DictKeys(active_connections)
          /\ sockets[a].user_id = sockets[b].user_id
          /\ sockets[c].state = "rejected"

RECURSIVE SumCounts(_, _)
SumCounts(uc, users) ==
    IF users = {} THEN 0
    ELSE LET u == CHOOSE v \in users : TRUE
         IN  Cardinality(uc[u]) + SumCounts(uc, users \ {u})

\* C16: a connection id is in active_connections iff it is in the
\* user_connections set of its user and of no other user, no user maps to
\* an empty set, and len(active_connections) is the sum of the per-user
\* counts that get_statistics reports.
C16_IndicesAgree ==
    /\ \A id \in 1..uuids :
          id \in DictKeys(active_connections) <=>
              \E u \in DOMAIN user_connections : id \in user_connections[u]
    /\ \A id \in DictKeys(active_connections) :
          \A u \in DOMAIN user_connections :
              id \in user_connections[u] <=>
                  u = DictGet(active_connections, id).user_id
    /\ \A u \in DOMAIN user_connections : user_connections[u] # {}
    /\ DictLen(active_connections)
          = SumCounts(user_connections, DOMAIN user_connections)
    /\ \A i, j \in Present(active_connections) :
          active_connections[i].id = active_connections[j].id => i = j

\* both users hold connections after connects, a disconnect and a
\* broadcast that pruned a failed connection
C16_Witness ==
    /\ DOMAIN user_connections = Users
    /\ DictLen(active_connections) = 2
    /\ uuids = 4
    /\ \E t \in BroadcastIds :
          broadcasts[t].pc = "done" /\ Disconnected(broadcasts[t]) # <<>>

\* the ids a call sent to (send returned or raised), the ids whose send
\* raised, and the connections the call is to reach
SentIds(task) == {task.sent[i].id : i \in DOMAIN task.sent}
FailedIds(task) == {task.sent[i].id : i \in {j \in DOMAIN task.sent : ~task.sent[j].ok}}
Addressees(task) ==
    CASE task.kind = "all"  -> task.registered \ {task.arg}
      [] task.kind = "user" -> {id \in task.registered :
                                    sockets[id].user_id = task.arg}
      [] OTHER              -> task.registered \cap {task.arg}

\* C17: a broadcast or broadcast_to_user during which no other task
\* changed the indices has, when it returns, attempted exactly one send to
\* each connection it addresses (all registered connections but the
\* excluded one; the connections of the one user) and to no other, a
\* failed send notwithstanding; and exactly the connections whose send
\* failed are gone from both indices.
C17_BroadcastDelivery ==
    [][\A t \in DOMAIN broadcasts' :
          LET task == broadcasts'[t]
          IN  ( /\ task.kind \in {"all", "user"}
                /\ task.pc = "done"
                /\ ~task.disturbed
                /\ (t \in DOMAIN broadcasts => broadcasts[t].pc # "done") )
              => /\ SentIds(task) = Addressees(task)
                 /\ Len(task.sent) = Cardinality(Addressees(task))
                 /\ DictKeys(active_connections')
                        = task.registered \ FailedIds(task)
                 /\ \A u \in Users :
                        ConnectionsOf(active_connections', u)
                            = IF u \in DOMAIN user_connections'
                              THEN user_connections'[u] ELSE {}
      ]_vars

\* an undisturbed broadcast_to_user returned after a failed and then a
\* successful send while the other user holds a connection
C17_Witness ==
    \E t \in BroadcastIds :
        /\ broadcasts[t].kind = "user"
        /\ broadcasts[t].pc = "done"
        /\ ~broadcasts[t].disturbed
        /\ Len(broadcasts[t].sent) = 2
        /\ ~broadcasts[t].sent[1].ok
        /\ broadcasts[t].sent[2].ok
        /\ \E u \in DOMAIN user_connections : u # broadcasts[t].arg

\* C18: no broadcast, broadcast_to_user or personal send ends with an
\* exception raised by its iteration, and once it has finished sending,
\* every connection it addresses that is still registered (ids are never
\* registered twice, so: that stayed registered throughout) was sent the
\* message.
C18_ConcurrentBroadcast ==
    \A t \in BroadcastIds :
        /\ broadcasts[t].pc # "aborted"
        /\ broadcasts[t].pc \in {"cleanup", "done"} =>
              Addressees(broadcasts[t]) \cap DictKeys(active_connections)
                  \subseteq SentIds(broadcasts[t])

\* ======================================================================
\* Properties of the statistics broadcaster
\* ======================================================================
\* the connections a call has sent to or is sending to
Attempted(task) ==
    SentIds(task) \cup (IF task.target = NoConn THEN {} ELSE {task.target})

\* C19: stop() never ends a statistics broadcast that has begun sending
\* while a connection that is still registered has not been attempted:
\* whenever the loop's broadcast was ended by the cancellation, every
\* connection it addresses that is still registered was sent to or was
\* being sent to.
C19_NoPartialBroadcast ==
    \A t \in BroadcastIds :
        (broadcasts[t].by = "loop" /\ broadcasts[t].pc = "cancelled") =>
            Addressees(broadcasts[t]) \cap DictKeys(active_connections)
                \subseteq Attempted(broadcasts[t])

\* C20 (safety): while is_running holds the loop task has not returned,
\* whatever the collection and the sends did: it is about to iterate, in
\* its broadcast or in its sleep; a broadcast of the loop that ended or
\* was left by an exception leaves the loop in asyncio.sleep, and the next
\* iteration begins only when the whole interval has passed.
C20_LoopSurvives ==
    [][/\ broadcaster'.is_running =>
            broadcaster'.pc \in {"head", "broadcast", "sleep"}
       /\ \A t \in DOMAIN broadcasts' :
            ( /\ broadcasts'[t].by = "loop"
              /\ broadcasts'[t].pc \in {"done", "aborted"}
              /\ (t \in DOMAIN broadcasts =>
                     broadcasts[t].pc \notin {"done", "aborted"}) )
            => /\ broadcaster'.pc = "sleep"
               /\ broadcaster'.slept = 0
               /\ broadcaster'.is_running
       /\ ( /\ broadcaster.pc = "sleep"
            /\ broadcaster'.iterations > broadcaster.iterations )
          => broadcaster.slept = interval
      ]_vars

\* C20 (progress): while the broadcaster is running, each iteration is
\* followed by the next one unless stop() intervenes.
C20_NextIteration ==
    \A n \in 1..(MaxIterations - 1) :
        (broadcaster.is_running /\ broadcaster.iterations = n)
            ~> (~broadcaster.is_running \/ broadcaster.iterations = n + 1)

\* C20: a failure while collecting or broadcasting never terminates the
\* loop, and every iteration is followed, after the interval, by another
\* while the broadcaster is running and not stopped.
C20_LoopContinues == C20_LoopSurvives /\ C20_NextIteration

\* the first iteration collected the error dict and its broadcast was
\* left by an exception after a failed send; the loop, still running, is
\* in its second iteration
C20_Witness ==
    /\ broadcaster.is_running
    /\ broadcaster.iterations = 2
    /\ Len(broadcasts) = 2
    /\ broadcasts[1].message = "error"
    /\ broadcasts[1].pc = "aborted"
    /\ \E i \in DOMAIN broadcasts[1].sent : ~broadcasts[1].sent[i].ok

\* ======================================================================
\* The event loop: MJPEG streams and test alerts (api/routes)
\* ======================================================================
\* POST /alerts/test: the request of a test notification
TestEvent ==
    [kind |-> "test", camera_id |-> "", person_name |-> "",
     is_known |-> FALSE, recording_started |-> FALSE]

\* test_alert(alert_config_id = i, channel = ch) up to the send: the
\* handler is a coroutine on the event loop; a channel that is not
\* enabled or has no recipient is answered with 400 before any send
TestAlert(i, ch) ==
    /\ HeldBy = {}
    /\ Len(tasks) < MaxTasks
    /\ i \in DOMAIN configs
    /\ ShouldAttempt(configs[i], ch)
    /\ tasks' = Append(tasks, [NewTask(TestEvent) EXCEPT
                                 !.pc = ch, !.cfgs = <<i>>, !.idx = 1])
    /\ UNCHANGED <<wall, ticks, configs, throttles, notification_logs,
                   camVars, wsVars, sessions, ruleVars, faceVars, motionVars, matchVars>>

\* the send of a test alert returns (success = ok) and the handler answers
TestReturn(t, ok) ==
    /\ HeldBy \subseteq {t}
    /\ tasks[t].event = TestEvent
    /\ tasks[t].pc \in Range(Channels)
    /\ tasks' = [tasks EXCEPT
                   ![t].pc = "done",
                   ![t].sent = Append(@, [config |-> tasks[t].cfgs[1],
                                          channel |-> tasks[t].pc, ok |-> ok])]
    /\ UNCHANGED <<wall, ticks, configs, throttles, notification_logs,
                   camVars, wsVars, sessions, ruleVars, faceVars, motionVars, matchVars>>

\* one pass of the while loop of generate_frames(c): the generator is a
\* coroutine on the event loop and calls camera.get_frame() itself
StreamFrame(c, ret, motion, faces, opens) ==
    /\ HeldBy = {}
    /\ c \in cameras
    /\ GetFrame(c, ret, motion, faces, opens)

\* the application after startup: a camera registered and running, the
\* alert configurations in the database
LoopInit ==
    /\ RestIdle
    /\ WsIdle
    /\ wall = 0
    /\ ticks = 0
    /\ configs = NightTable
    /\ throttles = EmptyTable
    /\ tasks = <<>>
    /\ notification_logs = <<>>
    /\ clock = ClockStart
    /\ \E made \in {<<"mock", TRUE>>, <<"rtsp", FALSE>>} :
          cams = [c \in CameraNames |-> NewCamera(made[1], made[2])]
    /\ rec = [c \in CameraNames |-> NewRecorder]
    /\ sinks = <<>>
    /\ saved = <<>>
    /\ framed = {}
    /\ calls = NoCalls
    /\ cameras = CameraNames
    /\ returned = [c \in CameraNames |-> NoReturn]

LoopNext ==
    \/ \E i \in DOMAIN configs, ch \in Range(Channels) : TestAlert(i, ch)
    \/ \E t \in TaskIds, ok \in BOOLEAN : TestReturn(t, ok)
    \/ \E c \in CameraNames, ret \in BOOLEAN, motion \in BOOLEAN,
          faces \in FaceInputs, opens \in BOOLEAN :
            StreamFrame(c, ret, motion, faces, opens)
    \/ \E c \in CameraNames : SourceLost(c)
    \/ ClockTick

SpecLoop == LoopInit /\ [][LoopNext]_vars

\* ======================================================================
\* websocket_statistics_endpoint (api/routes/websockets.py)
\* ======================================================================
\* what receive_text() delivers: a dict literal with type ping, subscribe,
\* unsubscribe or another type, a text that is no dict literal, a text
\* starting with { that eval rejects, and one that eval turns into
\* something that is not a dict
Inbound ==
    {"ping", "subscribe", "unsubscribe", "other", "text", "malformed", "nondict"}

\* message.get("type", "unknown") after the parse of lines 156..159;
\* "AttributeError" when the parsed value has no get
MessageType(data) ==
    CASE data \in {"ping", "subscribe", "unsubscribe", "other"} -> data
      [] data \in {"text", "malformed"} -> "text"
      [] OTHER -> "AttributeError"

\* an endpoint that answers a message it does not know with an error
\* message
ReplyToAll(message_type) ==
    CASE message_type = "ping"        -> "pong"
      [] message_type = "subscribe"   -> "subscription_confirmed"
      [] message_type = "unsubscribe" -> "unsubscription_confirmed"
      [] message_type = "AttributeError" -> "none"
      [] OTHER                        -> "error"

\* the "type" of the message the if/elif chain of lines 164..195 sends for
\* a message type; "none": nothing is sent
Reply(message_type) ==
    CASE message_type = "ping"        -> "pong"
      [] message_type = "subscribe"   -> "subscription_confirmed"
      [] message_type = "unsubscribe" -> "unsubscription_confirmed"
      [] OTHER                        -> "none"

\* the "type" of the message broadcast_statistics_update,
\* broadcast_camera_event and broadcast_alert build
ServerEvents == {"statistics_update", "camera_event", "alert"}

\* a run of the endpoint for connection id.  pc: "send" (inside
\* send_personal_message, awaiting send_json of `message`), "receive"
\* (awaiting receive_text), "closed" (the finally clause has run).
\* got: the "type" of each message the client has been sent, in order.
NewSession(pc, message) == [pc |-> pc, message |-> message, got |-> <<>>]

\* send_personal_message(message, id) called by session id up to its
\* await: nothing is sent to an id that is not registered
SendPersonal(session, message, ac, id) ==
    IF message # "none" /\ id \in DictKeys(ac)
    THEN [session EXCEPT !.pc = "send", !.message = message]
    ELSE [session EXCEPT !.pc = "receive", !.message = "none"]

\* messages sent and being sent, all sessions together
RECURSIVE Traffic(_, _)
Traffic(ss, ids) ==
    IF ids = {} THEN 0
    ELSE LET id == CHOOSE x \in ids : TRUE
         IN  Len(ss[id].got) + (IF ss[id].pc = "send" THEN 1 ELSE 0)
               + Traffic(ss, ids \ {id})

endpointElse == <<alertVars, camVars, ruleVars, faceVars, motionVars, matchVars>>

\* the endpoint authenticated the client and calls ws_manager.connect
EndpointConnect(user_id) ==
    /\ uuids < MaxSessions
    /\ ConnectEnter(user_id)

\* connect returned True: the welcome message (138..150)
EndpointWelcome(id) ==
    /\ id \in DOMAIN sockets
    /\ sockets[id].state = "open"
    /\ id \notin DOMAIN sessions
    /\ sessions' = Put(sessions, id,
                       SendPersonal(NewSession("receive", "none"),
                                    "connection_status", active_connections, id))
    /\ UNCHANGED <<wsVars, endpointElse>>

\* the send_json a session awaits returns (ok) or raises; a failed send
\* makes send_personal_message disconnect the connection
EndpointSent(id, ok) ==
    /\ id \in DOMAIN sessions
    /\ sessions[id].pc = "send"
    /\ accepting = <<>>
    /\ sessions' = [sessions EXCEPT
                      ![id].pc = "receive",
                      ![id].message = "none",
                      ![id].got = IF ok THEN Append(@, sessions[id].message)
                                  ELSE @]
    /\ LET out == IF ok THEN [ac |-> active_connections, uc |-> user_connections]
                  ELSE Unregister(active_connections, user_connections, id)
       IN  /\ active_connections' = out.ac
           /\ user_connections' = out.uc
    /\ UNCHANGED <<max_connections_per_user, accepting, uuids, sockets,
                   broadcasts, broadcaster, endpointElse>>

\* receive_text returns data: the message is parsed and answered
EndpointReceive(id, data) ==
    /\ id \in DOMAIN sessions
    /\ sessions[id].pc = "receive"
    /\ Traffic(sessions, DOMAIN sessions) < MaxMessages
    /\ sessions' = [sessions EXCEPT
                      ![id] = SendPersonal(@, Reply(MessageType(data)),
                                           active_connections, id)]
    /\ UNCHANGED <<wsVars, endpointElse>>

\* receive_text raises WebSocketDisconnect: break, and the finally clause
\* disconnects
EndpointDisconnect(id) ==
    /\ id \in DOMAIN sessions
    /\ sessions[id].pc = "receive"
    /\ accepting = <<>>
    /\ sessions' = [sessions EXCEPT ![id].pc = "closed"]
    /\ LET out == Unregister(active_connections, user_connections, id)
       IN  /\ active_connections' = out.ac
           /\ user_connections' = out.uc
    /\ UNCHANGED <<max_connections_per_user, accepting, uuids, sockets,
                   broadcasts, broadcaster, endpointElse>>

\* one connection.send_json(message) of a broadcast made by
\* broadcast_statistics_update, broadcast_camera_event or broadcast_alert,
\* to a registered connection whose endpoint run is under way; a failed
\* send ends in disconnect
ServerSend(id, event, ok) ==
    /\ id \in DOMAIN sessions
    /\ id \in DictKeys(active_connections)
    /\ accepting = <<>>
    /\ Traffic(sessions, DOMAIN sessions) < MaxMessages
    /\ sessions' = [sessions EXCEPT
                      ![id].got = IF ok THEN Append(@, event) ELSE @]
    /\ LET out == IF ok THEN [ac |-> active_connections, uc |-> user_connections]
                  ELSE Unregister(active_connections, user_connections, id)
       IN  /\ active_connections' = out.ac
           /\ user_connections' = out.uc
    /\ UNCHANGED <<max_connections_per_user, accepting, uuids, sockets,
                   broadcasts, broadcaster, endpointElse>>

EndpointInit ==
    /\ AlertIdle
    /\ CamIdle
    /\ WsIdle
    /\ RestIdle

EndpointNext ==
    \/ \E user_id \in Users : EndpointConnect(user_id)
    \/ \E ok \in BOOLEAN : ConnectAccept(ok)
    \/ \E id \in 1..uuids : EndpointWelcome(id)
    \/ \E id \in 1..uuids, ok \in BOOLEAN : EndpointSent(id, ok)
    \/ \E id \in 1..uuids, data \in Inbound : EndpointReceive(id, data)
    \/ \E id \in 1..uuids : EndpointDisconnect(id)
    \/ \E id \in 1..uuids, event \in ServerEvents, ok \in BOOLEAN :
          ServerSend(id, event, ok)

SpecEndpoint == EndpointInit /\ [][EndpointNext]_vars

\* ======================================================================
\* FaceDetector called directly (face_detection.py)
\* ======================================================================
\* a frame with more faces than the buffer holds
Crowd == [i \in 1..(max_buffer_size + 1) |-> "Unknown"]

\* what recognize_faces_in_frame finds in a frame
FaceBursts == {<<>>, <<"alice">>, <<"Unknown", "alice", "alice">>, Crowd}

\* no process_frame call yet
NoFaceLog ==
    [appended |-> <<>>, last_invoked |-> NoTime,
     result |-> [invoked |-> FALSE, frame |-> "none", faces |-> <<>>]]

\* process_frame(frame, motion_detected) on the detector
FaceCall(motion, faces, available, fails) ==
    /\ Len(face_log.appended) + Len(faces) <= MaxObserved
    /\ fails => faces = <<>>
    /\ LET out == ProcessFrame(detector, clock, motion, faces, available, fails)
       IN  /\ detector' = out.fd
           /\ tasks' = tasks \o out.raised
           /\ face_log' =
                 [appended |-> face_log.appended \o
                                  (IF out.frame = "annotated"
                                   THEN Observations(faces, motion, clock)
                                   ELSE <<>>),
                  last_invoked |-> IF out.invoked THEN clock
                                   ELSE face_log.last_invoked,
                  result |-> [invoked |-> out.invoked, frame |-> out.frame,
                              faces |-> out.faces]]
    /\ UNCHANGED <<wall, ticks, configs, throttles, notification_logs,
                   camVars, wsVars, sessions, ruleVars, motionVars, matchVars>>

\* set_enabled(enabled)
SetEnabled(enabled) ==
    /\ detector' = [detector EXCEPT !.enabled = enabled]
    /\ UNCHANGED <<face_log, alertVars, camVars, wsVars, sessions, ruleVars,
                   motionVars, matchVars>>

\* time passes between frames
FaceTick ==
    /\ clock < MaxFaceTicks
    /\ clock' = clock + 1
    /\ UNCHANGED <<cams, rec, sinks, saved, framed, calls, cameras, returned,
                   alertVars, wsVars, sessions, ruleVars, faceVars, motionVars, matchVars>>

\* FaceDetector(enabled)
FaceInit ==
    /\ AlertIdle
    /\ CamIdle
    /\ WsIdle
    /\ sessions = EmptyTable
    /\ RulesIdle
    /\ MotionIdle
    /\ MatchIdle
    /\ \E enabled \in BOOLEAN : detector = NewFaceDetector(enabled)
    /\ face_log = NoFaceLog

FaceNext ==
    \/ \E motion \in BOOLEAN, faces \in FaceBursts, available \in BOOLEAN,
          fails \in BOOLEAN : FaceCall(motion, faces, available, fails)
    \/ \E enabled \in BOOLEAN : SetEnabled(enabled)
    \/ FaceTick

SpecFace == FaceInit /\ [][FaceNext]_vars

\* ======================================================================
\* Rule-based AlertManager (alert_notification_system.py)
\* ======================================================================
\* timedelta(hours=1), seconds
SecondsPerHour == 3600

\* delivery_history[-1000:] and delivery_history[-10:]
history_limit == 1000
recent_count == 10

\* AlertRule(id=..., cooldown_seconds=..., max_per_hour=...): enabled, no
\* camera, time-range or weekday filter, last_triggered = None
NewRule(id, event_types, channels, cooldown_seconds, max_per_hour) ==
    [id |-> id, name |-> id, enabled |-> TRUE, event_types |-> event_types,
     channels |-> channels, recipients |-> <<"admin">>,
     cooldown_seconds |-> cooldown_seconds, max_per_hour |-> max_per_hour,
     last_triggered |-> NoTime]

\* the rules given to add_rule
RuleTemplates ==
    {NewRule("hourly", <<"motion_detected">>, <<"email">>, 1200, 2),
     NewRule("any", <<>>, <<"sms">>, 300, 10)}

RuleIds == {r.id : r \in RuleTemplates}

\* register_notifier was called for these channels
Notifiers == {"email"}

\* event_data['event_type'] of the events given to process_event
EventTypes == {"motion_detected", "face_detected"}

\* steps of datetime.now() between calls, seconds
RuleSteps == {300, 1200}

\* self.rules is a dict: its values in insertion order
RuleAt(rs, id) == CHOOSE i \in DOMAIN rs : rs[i].id = id
HasRule(rs, id) == \E i \in DOMAIN rs : rs[i].id = id

\* _check_rate_limit(rule) at time now: the rule's history is replaced by
\* its entries newer than now - cooldown_seconds, then the cooldown and
\* the hourly count are tested
CheckRateLimit(rule, th, now) ==
    LET old    == IF rule.id \in DOMAIN th THEN th[rule.id] ELSE <<>>
        kept   == SelectSeq(old, LAMBDA t : t > now - rule.cooldown_seconds)
        recent == SelectSeq(kept, LAMBDA t : t > now - SecondsPerHour)
    IN  [table   |-> Put(th, rule.id, kept),
         allowed |-> /\ ~( /\ rule.last_triggered # NoTime
                           /\ now - rule.last_triggered < rule.cooldown_seconds )
                     /\ ~(Len(recent) >= rule.max_per_hour)]

\* _should_trigger(rule, event_data) for a rule without camera, time-range
\* and weekday filter
ShouldTrigger(rule, event_type, th, now) ==
    IF ~rule.enabled THEN [table |-> th, allowed |-> FALSE]
    ELSE IF rule.event_types # <<>> /\ event_type \notin Range(rule.event_types)
    THEN [table |-> th, allowed |-> FALSE]
    ELSE CheckRateLimit(rule, th, now)

\* Notification(alert_rule_id, channel, recipient, timestamp): delivered
\* False and error None ("None" here)
NewNotification(rule, channel, recipient, now) ==
    [alert_rule_id |-> rule.id, channel |-> channel, recipient |-> recipient,
     timestamp |-> now, delivered |-> FALSE, error |-> "None"]

\* the notifications _trigger_alert queues: for channel, for recipient
Notifications(rule, now) ==
    [k \in 1..(Len(rule.channels) * Len(rule.recipients)) |->
        NewNotification(rule,
                        rule.channels[((k - 1) \div Len(rule.recipients)) + 1],
                        rule.recipients[((k - 1) % Len(rule.recipients)) + 1],
                        now)]

\* process_event from rule number i on: _should_trigger, and for a rule
\* that passes _trigger_alert (last_triggered, the history and the queue).
\* asyncio.Queue() is unbounded, so put() does not suspend.
RECURSIVE ProcessFrom(_, _, _)
ProcessFrom(st, event_type, i) ==
    IF i > Len(st.rules) THEN st
    ELSE LET rule == st.rules[i]
             gate == ShouldTrigger(rule, event_type, st.history, st.now)
         IN  IF ~gate.allowed
             THEN ProcessFrom([st EXCEPT !.history = gate.table], event_type, i + 1)
             ELSE ProcessFrom(
                    [st EXCEPT
                       !.rules[i].last_triggered = st.now,
                       !.history = Put(gate.table, rule.id,
                                       Append(gate.table[rule.id], st.now)),
                       !.queue = @ \o Notifications(rule, st.now),
                       !.triggers = Append(@, [rule |-> rule.id, at |-> st.now])],
                    event_type, i + 1)

\* the runs of _trigger_alert that are not of the rule object under id
Forget(log, id) == SelectSeq(log, LAMBDA r : r.rule # id)

\* add_rule(rule): self.rules[rule.id] = rule
AddRule(rule) ==
    /\ rules' = IF HasRule(rules, rule.id)
                THEN [rules EXCEPT ![RuleAt(rules, rule.id)] = rule]
                ELSE Append(rules, rule)
    /\ triggers' = Forget(triggers, rule.id)
    /\ UNCHANGED <<trigger_history, notification_queue, delivery_history,
                   alertVars, camVars, wsVars, sessions, faceVars, motionVars, matchVars>>

\* remove_rule(rule_id)
RemoveRule(id) ==
    /\ rules' = SelectSeq(rules, LAMBDA r : r.id # id)
    /\ triggers' = Forget(triggers, id)
    /\ UNCHANGED <<trigger_history, notification_queue, delivery_history,
                   alertVars, camVars, wsVars, sessions, faceVars, motionVars, matchVars>>

\* process_event(event_data)
ProcessEvent(event_type) ==
    /\ Len(delivery_history) + Len(notification_queue) < MaxTriggers
    /\ LET out == ProcessFrom([rules |-> rules, history |-> trigger_history,
                               queue |-> notification_queue,
                               triggers |-> triggers, now |-> wall],
                              event_type, 1)
       IN  /\ rules' = out.rules
           /\ trigger_history' = out.history
           /\ notification_queue' = out.queue
           /\ triggers' = out.triggers
    /\ UNCHANGED <<delivery_history, alertVars, camVars, wsVars, sessions,
                   faceVars, motionVars, matchVars>>

\* one pass of start_delivery_worker: a notification is taken from the
\* queue, its channel's notifier sends it (success = ok; the notifiers
\* catch their exceptions and return False) or there is no notifier, and
\* the notification is appended to the history, which is cut to its last
\* history_limit entries.  Nothing else reads what the pass holds while
\* it awaits send.
\* (a worker that would leave a notification whose send failed out of the
\* history)
DeliverDropsFailed(ok) ==
    /\ notification_queue # <<>>
    /\ LET notification == Head(notification_queue)
       IN  delivery_history' =
              IF notification.channel \in Notifiers /\ ~ok
              THEN delivery_history
              ELSE KeepLast(Append(delivery_history,
                                   IF notification.channel \in Notifiers
                                   THEN [notification EXCEPT !.delivered = ok]
                                   ELSE [notification EXCEPT
                                           !.error = "No notifier registered"]),
                            history_limit)
    /\ notification_queue' = Tail(notification_queue)
    /\ UNCHANGED <<rules, trigger_history, triggers, alertVars, camVars,
                   wsVars, sessions, faceVars, motionVars, matchVars>>

Deliver(ok) ==
    /\ notification_queue # <<>>
    /\ LET notification == Head(notification_queue)
           done == IF notification.channel \in Notifiers
                   THEN [notification EXCEPT !.delivered = ok]
                   ELSE [notification EXCEPT
                           !.error = "No notifier registered"]
       IN  delivery_history' = KeepLast(Append(delivery_history, done),
                                        history_limit)
    /\ notification_queue' = Tail(notification_queue)
    /\ UNCHANGED <<rules, trigger_history, triggers, alertVars, camVars,
                   wsVars, sessions, faceVars, motionVars, matchVars>>

\* datetime.now() advances
RuleTick(d) ==
    /\ ticks < MaxTicks
    /\ wall' = wall + d
    /\ ticks' = ticks + 1
    /\ UNCHANGED <<configs, throttles, tasks, notification_logs, camVars,
                   wsVars, sessions, ruleVars, faceVars, motionVars, matchVars>>

\* the entries of the history for one channel
OfChannel(dh, channel) == SelectSeq(dh, LAMBDA n : n.channel = channel)

\* get_statistics(): the dict it returns, or the KeyError raised by
\* self.rules[n.alert_rule_id] for an entry whose rule is gone
GetStatistics(rs, dh) ==
    LET recent == KeepLast(dh, recent_count)
    IN  IF \E k \in DOMAIN recent : ~HasRule(rs, recent[k].alert_rule_id)
        THEN [kind |-> "KeyError"]
        ELSE [kind |-> "return",
              total_rules |-> Len(rs),
              active_rules |-> Len(SelectSeq(rs, LAMBDA r : r.enabled)),
              total_delivered |-> Len(SelectSeq(dh, LAMBDA n : n.delivered)),
              total_failed |-> Len(dh) - Len(SelectSeq(dh, LAMBDA n : n.delivered)),
              by_channel |->
                 [ch \in {dh[k].channel : k \in DOMAIN dh} |->
                    [delivered |-> Len(SelectSeq(OfChannel(dh, ch),
                                                 LAMBDA n : n.delivered)),
                     failed |-> Len(SelectSeq(OfChannel(dh, ch),
                                              LAMBDA n : ~n.delivered))]],
              recent_alerts |->
                 [k \in DOMAIN recent |->
                    [rule_name |-> rs[RuleAt(rs, recent[k].alert_rule_id)].name,
                     channel |-> recent[k].channel,
                     delivered |-> recent[k].delivered,
                     timestamp |-> recent[k].timestamp]]]

\* AlertManager() with no rules file
RulesInit ==
    /\ AlertIdle
    /\ CamIdle
    /\ WsIdle
    /\ RestIdle

RulesNext ==
    \/ \E rule \in RuleTemplates : AddRule(rule)
    \/ \E id \in RuleIds : RemoveRule(id)
    \/ \E event_type \in EventTypes : ProcessEvent(event_type)
    \/ \E ok \in BOOLEAN : Deliver(ok)
    \/ \E d \in RuleSteps : RuleTick(d)

SpecRules == RulesInit /\ [][RulesNext]_vars

\* the delivery worker is a task of the event loop that loops forever on
\* `await self.notification_queue.get()`: while the queue holds a
\* notification the loop resumes it, and a send returns
SpecRulesFair == SpecRules /\ WF_vars(\E ok \in BOOLEAN : Deliver(ok))

\* ======================================================================
\* MotionDetector (motion_detector.py)
\* ======================================================================
\* SENSITIVITY_MAP (27..38)
SENSITIVITY_MAP ==
    [s \in 1..10 |->
        CASE s = 1 -> 5000 [] s = 2 -> 3000 [] s = 3 -> 1500 [] s = 4 -> 800
          [] s = 5 -> 500  [] s = 6 -> 300  [] s = 7 -> 200  [] s = 8 -> 150
          [] s = 9 -> 120  [] s = 10 -> 100]

\* NOISE_REDUCTION_MAP (41..45): level -> (kernel size, morph_iterations)
NOISE_REDUCTION_MAP ==
    [level \in {"low", "medium", "high"} |->
        CASE level = "low"    -> [blur_kernel |-> 3, morph_iterations |-> 1]
          [] level = "medium" -> [blur_kernel |-> 5, morph_iterations |-> 2]
          [] level = "high"   -> [blur_kernel |-> 7, morph_iterations |-> 3]]

\* str.lower() on the level names passed
Lower(level) ==
    CASE level = "HIGH" -> "high" [] level = "Low" -> "low" [] OTHER -> level

\* NOISE_REDUCTION_MAP.get(level, NOISE_REDUCTION_MAP['medium'])
NoiseParams(level) ==
    IF level \in DOMAIN NOISE_REDUCTION_MAP THEN NOISE_REDUCTION_MAP[level]
    ELSE NOISE_REDUCTION_MAP["medium"]

\* max(1, min(10, sensitivity)) without the lower limit
ClampSensitivityAbove(sensitivity) ==
    IF sensitivity < 10 THEN sensitivity ELSE 10

\* max(1, min(10, sensitivity))
ClampSensitivity(sensitivity) ==
    LET low == IF sensitivity < 10 THEN sensitivity ELSE 10
    IN  IF low > 1 THEN low ELSE 1

\* SENSITIVITY_MAP.get(sensitivity, default)
MinContourArea(sensitivity, default) ==
    IF sensitivity \in DOMAIN SENSITIVITY_MAP THEN SENSITIVITY_MAP[sensitivity]
    ELSE default

\* cv2.createBackgroundSubtractorMOG2(history=500, varThreshold=...,
\* detectShadows=...): a background model that has seen no frame
NewBackSub(var_threshold, detect_shadows) ==
    [varThreshold |-> var_threshold, detectShadows |-> detect_shadows,
     frames |-> 0]

\* ---- detection_zones arguments: what the string is and what json.loads
\* gives for it.  kind "None": no string; "blank": the empty string;
\* "invalid": not JSON (json.loads raises); "array": JSON that is not an
\* object (.get raises AttributeError); "object": a dict with the keys in
\* `has`.  zones is a list of rows of 0/1 cells.
ZoneDoc(kind, has, width, height, zones) ==
    [kind |-> kind, has |-> has, width |-> width, height |-> height,
     zones |-> zones]

ZoneNone    == ZoneDoc("None", {}, 0, 0, <<>>)
ZoneBlank   == ZoneDoc("blank", {}, 0, 0, <<>>)
ZoneInvalid == ZoneDoc("invalid", {}, 0, 0, <<>>)
ZoneArray   == ZoneDoc("array", {}, 0, 0, <<>>)
ZoneMissing == ZoneDoc("object", {"width", "height"}, 2, 2, <<>>)
ZoneEmpty   == ZoneDoc("object", {"width", "height", "zones"}, 2, 2, <<>>)
ZoneShort   == ZoneDoc("object", {"width", "height", "zones"}, 2, 3,
                       <<<<1, 1>>, <<1, 1>>>>)
ZoneBare    == ZoneDoc("object", {"zones"}, 0, 0, <<<<1, 1>>, <<0, 0>>>>)
ZoneValid   == ZoneDoc("object", {"width", "height", "zones"}, 2, 2,
                       <<<<1, 0>>, <<0, 1>>>>)
ZoneWide    == ZoneDoc("object", {"width", "height", "zones"}, 1, 1,
                       <<<<1, 1>>>>)
ZoneFlat    == ZoneDoc("object", {"width", "height", "zones"}, 0, 1,
                       <<<<1>>>>)

\* the strings that are not JSON or not a JSON object, and the objects
\* whose zones are absent or empty or whose row count is not the height
ZonesMalformed == {ZoneBlank, ZoneInvalid, ZoneArray, ZoneMissing, ZoneEmpty,
                   ZoneShort, ZoneBare}
\* the objects a mask is built from
ZonesAccepted == {ZoneValid, ZoneWide, ZoneFlat}

\* self.detection_mask = None
NoMask == [present |-> FALSE, width |-> 0, height |-> 0, cells |-> <<>>]

\* np.zeros((grid_height, grid_width)) with 255 in the enabled cells that
\* lie inside the grid
GridMask(grid_width, grid_height, zones) ==
    [present |-> TRUE, width |-> grid_width, height |-> grid_height,
     cells |-> [y \in 1..grid_height |->
                  [x \in 1..grid_width |->
                     IF /\ y <= Len(zones) /\ x <= Len(zones[y])
                        /\ zones[y][x] # 0
                     THEN 255 ELSE 0]]]

\* _create_detection_mask without the test of the row count
CreateDetectionMaskAnyRows(doc) ==
    IF doc.kind # "object" THEN NoMask
    ELSE LET grid_width  == IF "width" \in doc.has THEN doc.width ELSE 8
             grid_height == IF "height" \in doc.has THEN doc.height ELSE 6
             zones       == IF "zones" \in doc.has THEN doc.zones ELSE <<>>
         IN  IF zones = <<>> THEN NoMask
             ELSE GridMask(grid_width, grid_height, zones)

\* _create_detection_mask (94..128): the mask or None; every exception is
\* caught inside (126..128)
CreateDetectionMask(doc) ==
    IF doc.kind # "object" THEN NoMask
    ELSE LET grid_width  == IF "width" \in doc.has THEN doc.width ELSE 8
             grid_height == IF "height" \in doc.has THEN doc.height ELSE 6
             zones       == IF "zones" \in doc.has THEN doc.zones ELSE <<>>
         IN  IF zones = <<>> \/ Len(zones) # grid_height THEN NoMask
             ELSE GridMask(grid_width, grid_height, zones)

\* MotionDetector.__init__ (47..92) with the default min_contour_area; a
\* noise_reduction of "" stands for any falsy value
NewMotionDetector(sensitivity, var_threshold, noise_reduction, detect_shadows, detection_zones) ==
    LET clamped == ClampSensitivity(sensitivity)
        level   == IF noise_reduction = "" THEN "medium"
                   ELSE Lower(noise_reduction)
    IN  [sensitivity |-> clamped,
         min_contour_area |-> MinContourArea(clamped, 500),
         blur_kernel |-> NoiseParams(level).blur_kernel,
         morph_iterations |-> NoiseParams(level).morph_iterations,
         back_sub |-> NewBackSub(var_threshold, detect_shadows),
         detection_mask |-> IF detection_zones.kind \in {"None", "blank"}
                            THEN NoMask
                            ELSE CreateDetectionMask(detection_zones)]

\* the names of the settings update_settings takes
SettingNames == {"sensitivity", "var_threshold", "noise_reduction",
                 "detect_shadows", "detection_zones"}

\* the arguments of one update_settings call: the names in `given` are
\* passed, every other argument is None
SettingArgs(given, sensitivity, var_threshold, noise_reduction, detect_shadows, detection_zones) ==
    [given |-> given, sensitivity |-> sensitivity,
     var_threshold |-> var_threshold, noise_reduction |-> noise_reduction,
     detect_shadows |-> detect_shadows, detection_zones |-> detection_zones]

\* MotionDetector.update_settings (130..171)
UpdateSettings(md, args) ==
    LET s1 == IF "sensitivity" \in args.given
              THEN [md EXCEPT
                      !.sensitivity = ClampSensitivity(args.sensitivity),
                      !.min_contour_area =
                          MinContourArea(ClampSensitivity(args.sensitivity), 500)]
              ELSE md
        np == NoiseParams(Lower(args.noise_reduction))
        s2 == IF "noise_reduction" \in args.given
              THEN [s1 EXCEPT !.blur_kernel = np.blur_kernel,
                              !.morph_iterations = np.morph_iterations]
              ELSE s1
        s3 == IF "var_threshold" \in args.given \/ "detect_shadows" \in args.given
              THEN [s2 EXCEPT !.back_sub =
                      NewBackSub(IF "var_threshold" \in args.given
                                 THEN args.var_threshold ELSE 50,
                                 IF "detect_shadows" \in args.given
                                 THEN args.detect_shadows ELSE TRUE)]
              ELSE s2
    IN  IF "detection_zones" \in args.given
        THEN [s3 EXCEPT !.detection_mask =
                CreateDetectionMask(args.detection_zones)]
        ELSE s3

\* ---- detect.  A frame is given by the foreground components that
\* back_sub.apply leaves: area2 is twice the area cv2.contourArea gives (a
\* multiple of 0.5), width the narrowest extent in pixels, col and row the
\* half of the frame the component lies in (0 or 1).
Blob(area2, width, col, row) ==
    [area2 |-> area2, width |-> width, col |-> col, row |-> row]

\* cv2.resize(mask, (w, h), INTER_NEAREST) read at a component: the cell
\* of the grid that covers it
MaskAt(mask, blob) ==
    mask.cells[((blob.row * mask.height) \div 2) + 1]
              [((blob.col * mask.width) \div 2) + 1]

\* erode then dilate, iterations times each, with the 3x3 kernel: a
\* component narrower than 2 * iterations + 1 pixels disappears
SurvivesOpening(blob, iterations) == blob.width > 2 * iterations

\* the test `area < self.min_contour_area` with the limit excluded
KeepsContourAbove(area2, min_contour_area) == ~(area2 <= 2 * min_contour_area)

\* the test `area < self.min_contour_area: continue` (211)
KeepsContour(area2, min_contour_area) == ~(area2 < 2 * min_contour_area)

\* what a call gave
NoResult == [kind |-> "none", contours |-> <<>>, motion |-> FALSE,
             motion_areas |-> <<>>]

\* MotionDetector.detect (173..242): the contours found and the tuple
\* returned, or the cv2.error cv2.resize raises for a mask without cells
DetectMotion(md, frame) ==
    LET mask     == md.detection_mask
        masked   == IF ~mask.present THEN frame
                    ELSE SelectSeq(frame, LAMBDA b : MaskAt(mask, b) = 255)
        contours == SelectSeq(masked,
                      LAMBDA b : SurvivesOpening(b, md.morph_iterations))
        kept     == SelectSeq(contours,
                      LAMBDA b : KeepsContour(b.area2, md.min_contour_area))
    IN  IF mask.present /\ (mask.width = 0 \/ mask.height = 0)
        THEN [NoResult EXCEPT !.kind = "cv2.error"]
        ELSE [kind |-> "return",
              contours |-> [k \in DOMAIN contours |-> contours[k].area2],
              motion |-> kept # <<>>,
              motion_areas |-> [k \in DOMAIN kept |->
                                  [area |-> kept[k].area2 \div 2,
                                   col |-> kept[k].col, row |-> kept[k].row]]]

\* ---- a MotionDetector under update_settings and detect calls
Sensitivities == {-3, 0, 1, 2, 3, 4, 5, 6, 7, 8, 9, 10, 11, 40}
NoiseLevels == {"low", "medium", "HIGH", "extreme", ""}
Thresholds == {16, 50}
ZoneDocs == ZonesMalformed \cup ZonesAccepted

\* the values the arguments of update_settings are drawn from
UpdateSensitivities == {-3, 0, 1, 7, 10, 11, 40}

\* update_settings(<name>=<value>) for one setting
NoSettings == SettingArgs({}, 5, 50, "medium", TRUE, ZoneValid)
OneSetting ==
    {[NoSettings EXCEPT !.given = {"sensitivity"}, !.sensitivity = v] :
        v \in UpdateSensitivities}
    \cup {[NoSettings EXCEPT !.given = {"var_threshold"}, !.var_threshold = v] :
        v \in Thresholds}
    \cup {[NoSettings EXCEPT !.given = {"noise_reduction"}, !.noise_reduction = v] :
        v \in NoiseLevels}
    \cup {[NoSettings EXCEPT !.given = {"detect_shadows"}, !.detect_shadows = v] :
        v \in BOOLEAN}
    \cup {[NoSettings EXCEPT !.given = {"detection_zones"}, !.detection_zones = v] :
        v \in ZoneDocs}

\* the call passing what a passes and what b passes
Both(a, b) ==
    LET from(name) == IF name \in a.given THEN a ELSE b
    IN  SettingArgs(a.given \cup b.given,
                    from("sensitivity").sensitivity,
                    from("var_threshold").var_threshold,
                    from("noise_reduction").noise_reduction,
                    from("detect_shadows").detect_shadows,
                    from("detection_zones").detection_zones)

\* the settings that are passed together with another one
Paired ==
    {a \in OneSetting :
        \/ "sensitivity" \in a.given /\ a.sensitivity \in {0, 7}
        \/ "var_threshold" \in a.given /\ a.var_threshold = 16
        \/ "noise_reduction" \in a.given /\ a.noise_reduction = "low"
        \/ "detect_shadows" \in a.given /\ ~a.detect_shadows
        \/ "detection_zones" \in a.given
              /\ a.detection_zones \in {ZoneValid, ZoneShort}}

\* update_settings calls passing one or two settings
UpdateCalls ==
    OneSetting \cup {Both(a, b) : a, b \in {x \in Paired : TRUE}}

\* components just below (-1), at (0) and just above (1) the minimum area
\* in force, in half pixels; none, one or two of them in a frame
Blobs ==
    {Blob(d, w, col, 0) : d \in {-1, 0, 1}, w \in {2, 5, 9}, col \in {0, 1}}

FrameShapes ==
    {<<>>} \cup {<<b>> : b \in Blobs}
    \cup {<<a, b>> : a \in {x \in Blobs : x.width = 9 /\ x.col = 0},
                     b \in {x \in Blobs : x.width = 9 /\ x.col = 1}}

\* the frame of that shape for a detector whose minimum area is
\* min_contour_area
FrameFor(shape, min_contour_area) ==
    [k \in DOMAIN shape |->
        [shape[k] EXCEPT !.area2 = 2 * min_contour_area + @]]

\* the call the log holds
Logged(call, args, frame, result) ==
    [call |-> call, args |-> args, frame |-> frame, result |-> result]

\* detector.update_settings(...)
UpdateCall(args) ==
    /\ motion_detector' = UpdateSettings(motion_detector, args)
    /\ motion_log' = Logged("update_settings", args, <<>>, NoResult)
    /\ UNCHANGED <<alertVars, camVars, wsVars, sessions, ruleVars, faceVars,
                   matchVars>>

\* detector.detect(frame): the background model takes the frame in
\* (line 188) before anything can raise
DetectCall(shape) ==
    /\ motion_detector.back_sub.frames < MaxFrames
    /\ motion_detector' =
          [motion_detector EXCEPT !.back_sub.frames = @ + 1]
    /\ LET frame == FrameFor(shape, motion_detector.min_contour_area)
       IN  motion_log' = Logged("detect", NoSettings, frame,
                                DetectMotion(motion_detector, frame))
    /\ UNCHANGED <<alertVars, camVars, wsVars, sessions, ruleVars, faceVars,
                   matchVars>>

\* detector = MotionDetector(sensitivity=..., var_threshold=..., ...)
MotionInit ==
    /\ AlertIdle
    /\ CamIdle
    /\ WsIdle
    /\ sessions = EmptyTable
    /\ RulesIdle
    /\ FaceIdle
    /\ MatchIdle
    /\ \E sensitivity \in Sensitivities, var_threshold \in Thresholds,
          noise_reduction \in NoiseLevels, detect_shadows \in BOOLEAN,
          detection_zones \in ZoneDocs \cup {ZoneNone} :
          /\ motion_detector =
                NewMotionDetector(sensitivity, var_threshold, noise_reduction,
                                  detect_shadows, detection_zones)
          /\ motion_log =
                Logged("__init__",
                       SettingArgs(SettingNames, sensitivity, var_threshold,
                                   noise_reduction, detect_shadows,
                                   detection_zones),
                       <<>>, NoResult)

MotionNext ==
    \/ \E args \in UpdateCalls : UpdateCall(args)
    \/ \E shape \in FrameShapes : DetectCall(shape)

SpecMotion == MotionInit /\ [][MotionNext]_vars

\* ======================================================================
\* Face galleries: FaceRecognitionManager (face_recognition.py) and
\* FaceRecognitionSystem (facial_recognition_system.py)
\* ======================================================================
\* An embedding is a point on a line and face_distance the distance on
\* it, in tenths: 6 is the distance 0.6, and a confidence of 10 is 1.0.
FaceDistance(known, face_encoding) ==
    [i \in DOMAIN known |->
        IF known[i] < face_encoding THEN face_encoding - known[i]
        ELSE known[i] - face_encoding]

\* np.argmin / min: the first index holding the least value
ArgMin(distances) ==
    CHOOSE i \in DOMAIN distances :
        /\ \A j \in DOMAIN distances : distances[i] <= distances[j]
        /\ \A j \in 1..(i - 1) : distances[j] > distances[i]

\* the tolerance test with the limit excluded
WithinToleranceBelow(distance, tolerance) == distance < tolerance

\* compare_faces: face_distance <= tolerance; `min_distance > tolerance`
\* negated
WithinTolerance(distance, tolerance) == distance <= tolerance

\* a face found in an image: its bounding-box area and its embedding
FaceIn(area, encoding) == [area |-> area, encoding |-> encoding]

\* what a recognition reports for one face
Match(name, confidence) == [name |-> name, confidence |-> confidence]

\* ---- FaceRecognitionManager
\* FaceRecognitionManager() with no encodings file
NewFaceManager ==
    [known_face_encodings |-> <<>>, known_face_names |-> <<>>,
     recognition_threshold |-> 6]

\* the inner loop of train_face_recognition (101..125) over the images of
\* one person, from image number i on: the first encoding of every image
\* that has one
RECURSIVE TrainImages(_, _, _, _)
TrainImages(fm, person_name, images, i) ==
    IF i > Len(images) THEN fm
    ELSE LET face_encodings == [k \in DOMAIN images[i] |-> images[i][k].encoding]
         IN  TrainImages(
               IF Len(face_encodings) > 0
               THEN [fm EXCEPT
                       !.known_face_encodings = Append(@, face_encodings[1]),
                       !.known_face_names = Append(@, person_name)]
               ELSE fm,
               person_name, images, i + 1)

\* the outer loop (91..125) over the person folders, in listing order
RECURSIVE TrainPeople(_, _, _)
TrainPeople(fm, folder, p) ==
    IF p > Len(folder) THEN fm
    ELSE TrainPeople(TrainImages(fm, folder[p].name, folder[p].images, 1),
                     folder, p + 1)

\* train_face_recognition (70..143) on the faces folder as listed
TrainFaceRecognition(fm, folder) ==
    TrainPeople([fm EXCEPT !.known_face_encodings = <<>>,
                           !.known_face_names = <<>>], folder, 1)

\* recognize_faces_in_frame (184..275): the detected_faces list for the
\* encodings found in the frame
RecognizeFacesInFrame(fm, frame) ==
    IF Len(fm.known_face_encodings) = 0 THEN <<>>
    ELSE [k \in DOMAIN frame |->
            LET face_distances == FaceDistance(fm.known_face_encodings, frame[k])
                best_match_index == ArgMin(face_distances)
            IN  IF WithinTolerance(face_distances[best_match_index],
                                   fm.recognition_threshold)
                THEN Match(fm.known_face_names[best_match_index],
                           10 - face_distances[best_match_index])
                ELSE Match("Unknown", 0)]

\* ---- FaceRecognitionSystem
\* timedelta(seconds=5)
cache_timeout == 5

\* FaceRecognitionSystem() with no database file.  people is the dict in
\* insertion order; _recognition_cache maps <<camera_id, encoding>> (the
\* cache key is built from the camera id and the hash of the encoding's
\* bytes) to name, confidence and the time of the entry.
NewFaceSystem ==
    [people |-> <<>>, known_encodings |-> <<>>, known_names |-> <<>>,
     recognition_cache |-> EmptyTable, tolerance |-> 6]

Person(id, name, encodings) ==
    [id |-> id, name |-> name, encodings |-> encodings, last_seen |-> NoTime]

\* max(face_locations, key=area): the first face of the greatest area
LargestFace(image) ==
    image[CHOOSE i \in DOMAIN image :
            /\ \A j \in DOMAIN image : image[i].area >= image[j].area
            /\ \A j \in 1..(i - 1) : image[j].area < image[i].area]

\* the loop of add_person (280..302) from image number i on: no encoding
\* for an image without a face, the encoding of the largest face otherwise
RECURSIVE EncodeImages(_, _)
EncodeImages(face_images, i) ==
    IF i > Len(face_images) THEN <<>>
    ELSE (IF Len(face_images[i]) = 0 THEN <<>>
          ELSE <<LargestFace(face_images[i]).encoding>>)
         \o EncodeImages(face_images, i + 1)

\* for p in self.people.values(): for encoding in p.encodings: from person
\* number p on
RECURSIVE Rebuild(_, _)
Rebuild(people, p) ==
    IF p > Len(people) THEN [known_encodings |-> <<>>, known_names |-> <<>>]
    ELSE LET rest == Rebuild(people, p + 1)
         IN  [known_encodings |-> people[p].encodings \o rest.known_encodings,
              known_names |-> [k \in DOMAIN people[p].encodings |-> people[p].name]
                              \o rest.known_names]

\* add_person (257..333): the system afterwards and the value returned
AddPerson(fs, person_id, name, face_images) ==
    LET encodings == EncodeImages(face_images, 1)
        person    == Person(person_id, name, encodings)
    IN  IF Len(encodings) = 0 THEN [sys |-> fs, ok |-> FALSE]
        ELSE [sys |-> [fs EXCEPT
                 !.people =
                    IF \E p \in DOMAIN @ : @[p].id = person_id
                    THEN [p \in DOMAIN @ |->
                            IF @[p].id = person_id THEN person ELSE @[p]]
                    ELSE Append(@, person),
                 !.known_encodings = @ \o encodings,
                 !.known_names = @ \o [k \in DOMAIN encodings |-> name]],
              ok |-> TRUE]

\* remove_person (335..364)
RemovePerson(fs, person_id) ==
    IF ~\E p \in DOMAIN fs.people : fs.people[p].id = person_id
    THEN [sys |-> fs, ok |-> FALSE]
    ELSE LET left  == SelectSeq(fs.people, LAMBDA q : q.id # person_id)
             lists == Rebuild(left, 1)
         IN  [sys |-> [fs EXCEPT !.people = left,
                                 !.known_encodings = lists.known_encodings,
                                 !.known_names = lists.known_names],
              ok |-> TRUE]

\* _match_face (438..462)
MatchFace(fs, face_encoding) ==
    IF Len(fs.known_encodings) = 0 THEN Match("unknown", 0)
    ELSE LET distances    == FaceDistance(fs.known_encodings, face_encoding)
             min_distance == distances[ArgMin(distances)]
         IN  IF ~WithinTolerance(min_distance, fs.tolerance)
             THEN Match("unknown", 10 - min_distance)
             ELSE Match(fs.known_names[ArgMin(distances)], 10 - min_distance)

\* the loop of recognize_faces (399..434) from face number k on: the cache
\* is read first and written after a match; last_seen of the people of
\* that name is set.  The image files of unknown faces, written by the
\* queue thread, are not part of the state.
RECURSIVE RecognizeFrom(_, _, _, _, _, _)
RecognizeFrom(fs, frame, camera_id, now, k, faces) ==
    IF k > Len(frame) THEN [sys |-> fs, faces |-> faces]
    ELSE LET cache_key == <<camera_id, frame[k]>>
             hit    == /\ cache_key \in DOMAIN fs.recognition_cache
                       /\ now - fs.recognition_cache[cache_key].at < cache_timeout
             found  == IF hit
                       THEN Match(fs.recognition_cache[cache_key].name,
                                  fs.recognition_cache[cache_key].confidence)
                       ELSE MatchFace(fs, frame[k])
             cached == IF hit THEN fs.recognition_cache
                       ELSE Put(fs.recognition_cache, cache_key,
                                [name |-> found.name,
                                 confidence |-> found.confidence, at |-> now])
             seen   == [p \in DOMAIN fs.people |->
                          IF found.name # "unknown" /\ fs.people[p].name = found.name
                          THEN [fs.people[p] EXCEPT !.last_seen = now]
                          ELSE fs.people[p]]
         IN  RecognizeFrom([fs EXCEPT !.recognition_cache = cached,
                                      !.people = seen],
                           frame, camera_id, now, k + 1, Append(faces, found))

\* recognize_faces (366..436) for the encodings of the faces detected
RecognizeFaces(fs, frame, camera_id, now) ==
    RecognizeFrom(fs, frame, camera_id, now, 1, <<>>)

\* ---- the two galleries under training and recognition calls
\* training images: no face; the face of A; a small face in front of the
\* large face of B
ImgNone  == <<>>
ImgA     == <<FaceIn(40, 2)>>
ImgCrowd == <<FaceIn(10, 20), FaceIn(40, 4)>>

PersonFolder(name, images) == [name |-> name, images |-> images]

\* the faces folder as os.listdir gives it
Folders ==
    {<<>>,
     <<PersonFolder("A", <<ImgNone, ImgA>>)>>,
     <<PersonFolder("A", <<ImgA>>), PersonFolder("B", <<ImgCrowd, ImgNone>>)>>}

\* add_person(person_id, name, face_images) calls
AddCalls ==
    {<<"p1", "A", <<ImgA>>>>, <<"p1", "A", <<ImgNone>>>>,
     <<"p2", "B", <<ImgCrowd, ImgNone>>>>}

PersonIds == {"p1", "p2"}

\* the encodings of the faces detected in a frame
QueryFrames == {<<>>, <<2>>, <<8>>, <<9>>, <<3, 20>>}
Queries == {2, 3, 8, 9}

\* seconds between calls
GallerySteps == {3}

\* the frames given to recognize_faces
SystemFrames == {<<>>, <<2>>, <<9>>, <<3, 20>>}

\* the last call: its name, what it was given and what it returned
MatchLog(call, folder, images, frame, result, ok) ==
    [call |-> call, folder |-> folder, images |-> images, frame |-> frame,
     result |-> result, ok |-> ok]

galleryElse == <<alertVars, camVars, wsVars, sessions, ruleVars, faceVars,
                 motionVars>>

\* manager.train_face_recognition()
TrainCall(folder) ==
    /\ face_manager' = TrainFaceRecognition(face_manager, folder)
    /\ match_log' = MatchLog("train_face_recognition", folder, <<>>, <<>>,
                             <<>>, TRUE)
    /\ UNCHANGED <<face_system, galleryElse>>

\* manager.recognize_faces_in_frame(frame); the statistics counters are
\* not part of the state
ManagerRecognize(frame) ==
    /\ match_log' = MatchLog("recognize_faces_in_frame", <<>>, <<>>, frame,
                             RecognizeFacesInFrame(face_manager, frame), TRUE)
    /\ UNCHANGED <<face_manager, face_system, galleryElse>>

\* system.add_person(person_id, name, face_images)
AddPersonCall(person_id, name, face_images) ==
    /\ Len(face_system.known_encodings) < MaxEncodings
    /\ LET out == AddPerson(face_system, person_id, name, face_images)
       IN  /\ face_system' = out.sys
           /\ match_log' = MatchLog("add_person", <<>>, face_images, <<>>,
                                    <<>>, out.ok)
    /\ UNCHANGED <<face_manager, galleryElse>>

\* system.remove_person(person_id)
RemovePersonCall(person_id) ==
    /\ LET out == RemovePerson(face_system, person_id)
       IN  /\ face_system' = out.sys
           /\ match_log' = MatchLog("remove_person", <<>>, <<>>, <<>>, <<>>,
                                    out.ok)
    /\ UNCHANGED <<face_manager, galleryElse>>

\* system.recognize_faces(frame, "cam1")
RecognizeCall(frame) ==
    /\ Cardinality(DOMAIN face_system.recognition_cache) + Len(frame) <= MaxCached
    /\ LET out == RecognizeFaces(face_system, frame, "cam1", wall)
       IN  /\ face_system' = out.sys
           /\ match_log' = MatchLog("recognize_faces", <<>>, <<>>, frame,
                                    out.faces, TRUE)
    /\ UNCHANGED <<face_manager, galleryElse>>

\* system._match_face(face_encoding)
MatchFaceCall(face_encoding) ==
    /\ match_log' = MatchLog("_match_face", <<>>, <<>>, <<face_encoding>>,
                             <<MatchFace(face_system, face_encoding)>>, TRUE)
    /\ UNCHANGED <<face_manager, face_system, galleryElse>>

\* datetime.now() advances
GalleryTick(d) ==
    /\ ticks < MaxTicks
    /\ wall' = wall + d
    /\ ticks' = ticks + 1
    /\ UNCHANGED <<configs, throttles, tasks, notification_logs, camVars,
                   wsVars, sessions, ruleVars, faceVars, motionVars, matchVars>>

\* both objects as constructed, without stored encodings or database
GalleryInit ==
    /\ AlertIdle
    /\ CamIdle
    /\ WsIdle
    /\ sessions = EmptyTable
    /\ RulesIdle
    /\ FaceIdle
    /\ MotionIdle
    /\ face_manager = NewFaceManager
    /\ face_system = NewFaceSystem
    /\ match_log = MatchLog("__init__", <<>>, <<>>, <<>>, <<>>, TRUE)

GalleryNext ==
    \/ \E folder \in Folders : TrainCall(folder)
    \/ \E frame \in QueryFrames : ManagerRecognize(frame)
    \/ \E call \in AddCalls : AddPersonCall(call[1], call[2], call[3])
    \/ \E person_id \in PersonIds : RemovePersonCall(person_id)
    \/ \E frame \in SystemFrames : RecognizeCall(frame)
    \/ \E face_encoding \in Queries : MatchFaceCall(face_encoding)
    \/ \E d \in GallerySteps : GalleryTick(d)

SpecGallery == GalleryInit /\ [][GalleryNext]_vars

\* ======================================================================
\* Properties of the camera manager
\* ======================================================================
\* the camera objects, recorders and registry other than id c's
OthersUnchanged(c) ==
    /\ \A d \in DOMAIN cams \ {c} : cams'[d] = cams[d] /\ rec'[d] = rec[d]
    /\ \A d \in CameraIds \ {c} : d \in cameras' <=> d \in cameras

\* C21: an add_camera call either registers, under an id that was not
\* registered, a new camera that is running, with a recorder that is
\* idle, or changes neither the registry nor any camera; it changes
\* nothing when the id is registered, when the type is unknown and when
\* the camera did not start; no call touches another id's entry; and
\* every registered camera is running.
C21_AddAllOrNothing ==
    [][/\ \A c \in cameras' : cams'[c].is_running
       /\ \A c \in CameraIds, camera_type \in CameraTypes, opens \in BOOLEAN,
             enable_face_detection \in BOOLEAN :
            AddCamera(c, camera_type, opens, enable_face_detection) =>
               /\ OthersUnchanged(c)
               /\ UNCHANGED <<sinks, saved>>
               /\ IF /\ c \notin cameras
                     /\ camera_type \in {"rtsp", "mock"}
                     /\ (camera_type = "rtsp" => opens)
                  THEN /\ cameras' = cameras \cup {c}
                       /\ cams'[c] = NewCamera(camera_type, enable_face_detection)
                       /\ cams'[c].is_running
                       /\ rec'[c] = NewRecorder
                  ELSE UNCHANGED <<cameras, cams, rec>>
      ]_vars

\* an RTSP camera and a mock camera are both registered; the mock camera
\* has served a frame request, the RTSP camera none yet
C21_Witness ==
    /\ cameras = CameraIds
    /\ cams["cam1"].kind = "rtsp"
    /\ cams["cam2"].kind = "mock"
    /\ cams["cam1"].capture = "open"
    /\ returned["cam1"] = NoReturn
    /\ returned["cam2"].kind = "ValueError"

\* recorders in a session: just started, and with a frame written
SessionSamples(c) ==
    LET s0 == RecorderStart(NewRecorder, c, clock, TRUE, sinks)
        s1 == RecorderWrite(s0.rec, s0.sinks)
    IN  {s0, s1}

\* C22: remove_camera of a registered id leaves that camera stopped, its
\* capture released, its recorder idle with no open sink, and the id out
\* of the registry, the other ids' cameras and entries being as before;
\* Camera.stop applied to the camera with a session active closes that
\* session (sink released, summary saved); remove_camera of an id that is
\* not registered changes nothing.
C22_RemoveFinalizes ==
    [][/\ \A c \in CameraIds :
            RemoveCamera(c) =>
               /\ OthersUnchanged(c)
               /\ c \notin cameras'
               /\ IF c \in cameras
                  THEN /\ ~cams'[c].is_running
                       /\ cams'[c].capture \in {"none", "released"}
                       /\ ~rec'[c].is_recording
                       /\ ActiveSinks(c)' = {}
                  ELSE UNCHANGED <<cameras, cams, rec, sinks, saved>>
       /\ \A c \in cameras : \A s \in SessionSamples(c) :
            LET out == CameraStop(cams[c], s.rec, c, clock, s.sinks, saved)
            IN  /\ ~out.cam.is_running
                /\ out.cam.capture \in {"none", "released"}
                /\ ~out.rec.is_recording
                /\ out.rec.writer = NoWriter
                /\ out.sinks[s.rec.writer].released
                /\ Len(out.saved) = Len(saved) + 1
                /\ Last(out.saved).owner = c
                /\ Last(out.saved).frame_count = s.rec.frame_count
      ]_vars

\* an RTSP camera was removed while the other camera stays registered
C22_Witness ==
    /\ cameras = {"cam2"}
    /\ "cam1" \in DOMAIN cams
    /\ cams["cam1"].kind = "rtsp"
    /\ ~cams["cam1"].is_running
    /\ cams["cam1"].capture = "released"
    /\ cams["cam2"].is_running

\* C23: a registered camera whose stream is gone for good eventually
\* leaves the registry.
C23_LostCameraLeaves ==
    \A c \in CameraIds :
        (c \in cameras /\ cams[c].capture = "lost") ~> (c \notin cameras)

\* C24: a get_frame call on a running camera with a frame available
\* returns the annotated frame and the motion flag that
\* MotionDetector.detect computed for the frame.
C24_FrameAndFlag ==
    [][\A c \in DOMAIN cams, motion \in BOOLEAN :
          Processed(c, motion) =>
              returned'[c] = Returned("annotated", motion)
      ]_vars

\* ======================================================================
\* Properties of the rule-based AlertManager
\* ======================================================================
\* the times at which _trigger_alert ran for the rule object under id
TriggersOf(id) ==
    LET own == SelectSeq(triggers, LAMBDA r : r.rule = id)
    IN  [k \in DOMAIN own |-> own[k].at]

\* a rule never triggered passes _check_rate_limit
NeverTriggeredPasses(rule) ==
    ( /\ TriggersOf(rule.id) = <<>>
      /\ (rule.id \in DOMAIN trigger_history => trigger_history[rule.id] = <<>>) )
        => CheckRateLimit(rule, trigger_history, wall).allowed

\* consecutive triggers of a rule are at least cooldown_seconds apart
CooldownKept(rule) ==
    LET at == TriggersOf(rule.id)
    IN  \A k \in 2..Len(at) : at[k] - at[k - 1] >= rule.cooldown_seconds

\* no hour ending at a trigger holds more than max_per_hour triggers
HourlyKept(rule) ==
    LET at == TriggersOf(rule.id)
    IN  \A k \in DOMAIN at :
           Cardinality({j \in 1..k : at[j] > at[k] - SecondsPerHour})
               <= rule.max_per_hour

\* C26: every registered rule is triggered within its rate limits: a rule
\* that was never triggered passes the rate check, two triggers of a rule
\* are never less than cooldown_seconds apart, and no one-hour window
\* holds more than max_per_hour triggers of a rule.
C26_RateLimits ==
    \A i \in DOMAIN rules :
        /\ NeverTriggeredPasses(rules[i])
        /\ CooldownKept(rules[i])
        /\ HourlyKept(rules[i])

\* the per-channel counts of a returned statistics dict add up to the
\* entries of the history for the channel
ChannelSums(stats, dh) ==
    \A ch \in DOMAIN stats.by_channel :
        stats.by_channel[ch].delivered + stats.by_channel[ch].failed
            = Len(OfChannel(dh, ch))

\* C30: in every state reached by add_rule, remove_rule, process_event and
\* deliveries, get_statistics returns a dict whose delivered and failed
\* counts per channel add up to the deliveries recorded for the channel
\* and whose recent-activity list is the last recent_count (10) entries
\* of the history at most, and the history holds at most history_limit
\* (1000) notifications.
C30_Statistics ==
    LET stats == GetStatistics(rules, delivery_history)
    IN  /\ Len(delivery_history) <= history_limit
        /\ stats.kind = "return"
        /\ ChannelSums(stats, delivery_history)
        /\ stats.total_delivered + stats.total_failed = Len(delivery_history)
        /\ Len(stats.recent_alerts) <= recent_count
        /\ \A k \in DOMAIN stats.recent_alerts :
              stats.recent_alerts[k].timestamp =
                 KeepLast(delivery_history, recent_count)[k].timestamp

\* ======================================================================
\* Properties of the FaceDetector
\* ======================================================================
\* the call arrives less than the cooldown after the last invocation of
\* the recognizer
WithinCooldown ==
    /\ face_log.last_invoked # NoTime
    /\ clock - face_log.last_invoked < detection_cooldown * TicksPerSecond

\* C27: a process_frame call that arrives less than detection_cooldown
\* (2 s) after the last invocation of the recognizer, or while detection
\* is disabled, or while the gallery is empty, does not invoke the
\* recognizer and returns the frame as it came with no observations; any
\* other call invokes the recognizer.
C27_RecognitionCooldown ==
    [][\A motion \in BOOLEAN, faces \in FaceBursts, available \in BOOLEAN,
          fails \in BOOLEAN :
          FaceCall(motion, faces, available, fails) =>
             IF WithinCooldown \/ ~detector.enabled \/ ~available
             THEN /\ ~face_log'.result.invoked
                  /\ face_log'.result.frame = "frame"
                  /\ face_log'.result.faces = <<>>
                  /\ detector' = detector
             ELSE face_log'.result.invoked
      ]_vars

\* C28: the buffer holds at most max_buffer_size (10) observations, and
\* they are the last ones appended, in the order of their arrival.
C28_DropOldest ==
    LET all == face_log.appended
        n   == IF Len(all) > max_buffer_size THEN max_buffer_size ELSE Len(all)
    IN  /\ Len(detector.detections_buffer) <= max_buffer_size
        /\ detector.detections_buffer = [k \in 1..n |-> all[Len(all) - n + k]]

\* more observations were appended than the buffer holds, by several
\* recognitions, and the oldest ones are gone
C28_Witness ==
    /\ Len(face_log.appended) > max_buffer_size
    /\ Len(detector.detections_buffer) = max_buffer_size
    /\ face_log.appended[1].timestamp < detector.detections_buffer[1].timestamp
    /\ detector.detections_buffer[1].timestamp
          < detector.detections_buffer[max_buffer_size].timestamp

\* ======================================================================
\* Properties of the statistics endpoint
\* ======================================================================
\* the message types of the outbound client message
OutboundTypes ==
    {"statistics_update", "camera_event", "alert", "connection_status",
     "pong", "subscription_confirmed"}

\* the "type" values of all messages the clients were sent
TypesSent == UNION {Range(sessions[id].got) : id \in DOMAIN sessions}

C25_FramesNeverWait ==
    [][/\ \A c \in cameras : c \notin framed => HeldBy = {}
       /\ \A c \in cameras :
             Processed(c, TRUE) =>
                /\ returned'[c].kind = "return"
                /\ Len(tasks') = Len(tasks) + 1
                /\ tasks'[Len(tasks')].pc = "start"
      ]_vars

\* ======================================================================
\* Properties of the MotionDetector
\* ======================================================================
\* the components of the logged frame that the opening leaves
Components ==
    SelectSeq(motion_log.frame,
              LAMBDA b : SurvivesOpening(b, motion_detector.morph_iterations))

\* the indexes of the contours of the logged detect call whose area is at
\* least the minimum area in force
AtLeastMin ==
    {k \in DOMAIN motion_log.result.contours :
        motion_log.result.contours[k] >= 2 * motion_detector.min_contour_area}

\* C33: when detect returns, motion is true if and only if some connected
\* component has an area of at least the minimum area of the sensitivity
\* in force; exactly the components of at least that area are emitted as
\* regions (each with an area of at least the minimum, the smaller ones
\* dropped), and motion is true exactly when the region list is non-empty.
C33_MotionIffRegion ==
    (motion_log.call = "detect" /\ motion_log.result.kind = "return") =>
        LET r == motion_log.result
        IN  /\ r.motion <=> AtLeastMin # {}
            /\ \A k \in DOMAIN r.motion_areas :
                  r.motion_areas[k].area >= motion_detector.min_contour_area
            /\ Len(r.motion_areas) = Cardinality(AtLeastMin)
            /\ r.motion <=> r.motion_areas # <<>>

\* a frame with one component of exactly the minimum area and one half a
\* pixel smaller gave motion with one region
C33_Witness ==
    /\ motion_log.call = "detect"
    /\ motion_log.result.kind = "return"
    /\ motion_log.result.contours =
          <<2 * motion_detector.min_contour_area - 1,
            2 * motion_detector.min_contour_area>>
    /\ motion_log.result.motion
    /\ Len(motion_log.result.motion_areas) = 1
    /\ motion_log.result.motion_areas[1].area = motion_detector.min_contour_area

\* C34: a zone configuration that is not JSON, not a JSON object, without
\* zones, or whose row count differs from its height, given to the
\* constructor or to update_settings, leaves the detector without a mask
\* (the call returns), and detect on a detector without a mask returns
\* with every component of the whole frame among its contours.
C34_MalformedZones ==
    /\ ( /\ motion_log.call \in {"__init__", "update_settings"}
         /\ "detection_zones" \in motion_log.args.given
         /\ motion_log.args.detection_zones \in ZonesMalformed )
       => ( /\ ~motion_detector.detection_mask.present
            /\ motion_log.result = NoResult )
    /\ (motion_log.call = "detect" /\ ~motion_detector.detection_mask.present)
       => ( /\ motion_log.result.kind = "return"
            /\ motion_log.result.contours =
                  [k \in DOMAIN Components |-> Components[k].area2] )

\* update_settings was given zones with fewer rows than their height and
\* the detector has no mask
C34_Witness ==
    /\ motion_log.call = "update_settings"
    /\ motion_log.args.given = {"detection_zones"}
    /\ motion_log.args.detection_zones = ZoneShort
    /\ ~motion_detector.detection_mask.present

\* C35: the minimum area of the table does not increase with the
\* sensitivity over 1..10; the sensitivity in force is always within
\* 1..10, it is the clamped argument after a constructor or
\* update_settings call that passes one, and the minimum area in force is
\* the table value of the sensitivity in force.
C35_SensitivityClamp ==
    /\ \A a, b \in 1..10 : a <= b => SENSITIVITY_MAP[a] >= SENSITIVITY_MAP[b]
    /\ motion_detector.sensitivity \in 1..10
    /\ motion_detector.min_contour_area =
          SENSITIVITY_MAP[motion_detector.sensitivity]
    /\ ( /\ motion_log.call \in {"__init__", "update_settings"}
         /\ "sensitivity" \in motion_log.args.given )
       => motion_detector.sensitivity =
             (IF motion_log.args.sensitivity < 1 THEN 1
              ELSE IF motion_log.args.sensitivity > 10 THEN 10
              ELSE motion_log.args.sensitivity)

\* update_settings(sensitivity=-3) left sensitivity 1 and the largest
\* minimum area
C35_Witness ==
    /\ motion_log.call = "update_settings"
    /\ "sensitivity" \in motion_log.args.given
    /\ motion_log.args.sensitivity = -3
    /\ motion_detector.sensitivity = 1
    /\ motion_detector.min_contour_area = 5000

\* C39: an update_settings call changes only the settings it passes:
\* sensitivity and minimum area, the noise-reduction parameters, the
\* variance threshold, shadow detection and the zone mask each keep their
\* value when the corresponding argument is None.
C39_UpdateFrame ==
    [][ motion_log'.call = "update_settings" =>
          LET given == motion_log'.args.given
              old   == motion_detector
              new   == motion_detector'
          IN  /\ "sensitivity" \notin given =>
                    /\ new.sensitivity = old.sensitivity
                    /\ new.min_contour_area = old.min_contour_area
              /\ "noise_reduction" \notin given =>
                    /\ new.blur_kernel = old.blur_kernel
                    /\ new.morph_iterations = old.morph_iterations
              /\ "var_threshold" \notin given =>
                    new.back_sub.varThreshold = old.back_sub.varThreshold
              /\ "detect_shadows" \notin given =>
                    new.back_sub.detectShadows = old.back_sub.detectShadows
              /\ "detection_zones" \notin given =>
                    new.detection_mask = old.detection_mask ]_vars

\* ======================================================================
\* Properties of the face galleries
\* ======================================================================
\* the least distance from a query to the gallery
LeastDistance(known, query) ==
    LET d == FaceDistance(known, query)
    IN  CHOOSE m \in Range(d) : \A i \in DOMAIN d : m <= d[i]

\* the gallery the logged matching call ran against, and its tolerance
LoggedGallery ==
    IF match_log.call = "recognize_faces_in_frame"
    THEN [encodings |-> face_manager.known_face_encodings,
          names |-> face_manager.known_face_names,
          tolerance |-> face_manager.recognition_threshold]
    ELSE [encodings |-> face_system.known_encodings,
          names |-> face_system.known_names,
          tolerance |-> face_system.tolerance]

\* a matching call on a non-empty gallery is logged
Matched ==
    /\ match_log.call \in {"recognize_faces_in_frame", "_match_face"}
    /\ LoggedGallery.encodings # <<>>

\* C31 as stated: for a detected face and a non-empty gallery the result
\* is taken from a gallery entry at minimum distance: the confidence is 1
\* minus that distance, and the label is the entry's label if the distance
\* does not exceed the tolerance and "Unknown" otherwise.
C31_ArgMinMatch ==
    Matched =>
      \A k \in DOMAIN match_log.frame :
         LET g == LoggedGallery
             m == LeastDistance(g.encodings, match_log.frame[k])
         IN  \E i \in DOMAIN g.encodings :
                /\ FaceDistance(g.encodings, match_log.frame[k])[i] = m
                /\ match_log.result[k].confidence = 10 - m
                /\ match_log.result[k].name =
                      IF m <= g.tolerance THEN g.names[i] ELSE "Unknown"

\* C31, amended: for a detected face and a non-empty gallery the result is
\* taken from a gallery entry at minimum distance.  Within the tolerance
\* the label is that entry's label and the confidence 1 minus the
\* distance; beyond it recognize_faces_in_frame gives "Unknown" with
\* confidence 0.0 and _match_face gives "unknown" with 1 minus the
\* distance.
C31_MatchOrUnknown ==
    Matched =>
      \A k \in DOMAIN match_log.frame :
         LET g == LoggedGallery
             m == LeastDistance(g.encodings, match_log.frame[k])
         IN  \E i \in DOMAIN g.encodings :
                /\ FaceDistance(g.encodings, match_log.frame[k])[i] = m
                /\ match_log.result[k] =
                      IF m <= g.tolerance THEN Match(g.names[i], 10 - m)
                      ELSE IF match_log.call = "recognize_faces_in_frame"
                           THEN Match("Unknown", 0)
                           ELSE Match("unknown", 10 - m)

\* the manager matched a face equal to a gallery embedding of A with
\* confidence 1.0 and reported a face farther than the tolerance from
\* every entry as Unknown with confidence 0.0
C31_Witness ==
    /\ match_log.call = "recognize_faces_in_frame"
    /\ face_manager.known_face_encodings = <<2, 20>>
    /\ match_log.frame = <<9>>
    /\ match_log.result = <<Match("Unknown", 0)>>
    /\ RecognizeFacesInFrame(face_manager, <<2>>) = <<Match("A", 10)>>

\* every image of the folder, in training order, from person number p on
RECURSIVE FolderImages(_, _)
FolderImages(folder, p) ==
    IF p > Len(folder) THEN <<>>
    ELSE [k \in DOMAIN folder[p].images |->
            [name |-> folder[p].name, faces |-> folder[p].images[k]]]
         \o FolderImages(folder, p + 1)

\* the embeddings of the faces of the greatest area in an image
LargestOf(faces) ==
    {faces[i].encoding :
        i \in {i \in DOMAIN faces :
                 \A j \in DOMAIN faces : faces[i].area >= faces[j].area}}

\* the gallery entries numbered from + 1 on are one per image that has a
\* face, in order, each the embedding of a largest face with the label
EntriesMatch(encodings, names, from, images) ==
    LET faced == SelectSeq(images, LAMBDA im : im.faces # <<>>)
    IN  /\ Len(encodings) = from + Len(faced)
        /\ Len(names) = from + Len(faced)
        /\ \A k \in DOMAIN faced :
              /\ encodings[from + k] \in LargestOf(faced[k].faces)
              /\ names[from + k] = faced[k].name

\* C32: training adds exactly one gallery entry per training image that
\* contains a face and none for an image without one, and for an image
\* with several faces the entry is the embedding of the face with the
\* largest bounding-box area: after train_face_recognition the gallery is
\* that list for the folder, and a successful add_person appended that
\* list for its images.
C32_OnePerImage ==
    /\ match_log.call = "train_face_recognition" =>
          EntriesMatch(face_manager.known_face_encodings,
                       face_manager.known_face_names, 0,
                       FolderImages(match_log.folder, 1))
    /\ (match_log.call = "add_person" /\ match_log.ok) =>
          LET images == [k \in DOMAIN match_log.images |->
                           [name |-> face_system.known_names[
                                        Len(face_system.known_names)],
                            faces |-> match_log.images[k]]]
              added  == Len(SelectSeq(images, LAMBDA im : im.faces # <<>>))
          IN  /\ added <= Len(face_system.known_encodings)
              /\ EntriesMatch(face_system.known_encodings,
                              face_system.known_names,
                              Len(face_system.known_encodings) - added,
                              images)

\* C40: every label and confidence recognize_faces returns is what
\* _match_face gives for that face against the gallery as it is at the
\* time of the call.
C40_CacheTransparent ==
    match_log.call = "recognize_faces" =>
       \A k \in DOMAIN match_log.frame :
          match_log.result[k] = MatchFace(face_system, match_log.frame[k])

\* ======================================================================
\* Properties of the delivery worker
\* ======================================================================
\* the notifications as they were queued
AsQueued(ns) ==
    [k \in DOMAIN ns |-> [ns[k] EXCEPT !.delivered = FALSE, !.error = "None"]]

\* every notification queued so far, in the order of the put() calls:
\* those the worker has taken, then those still in the queue
EverQueued(dh, q) == AsQueued(dh) \o q

IsPrefixOf(s, t) == Len(s) <= Len(t) /\ SubSeq(t, 1, Len(s)) = s

\* C36: every notification process_event queues is taken by the delivery
\* worker exactly once, in FIFO order, and is eventually appended to
\* delivery_history with delivered equal to the notifier's result; a
\* notification whose channel has no notifier is recorded as not delivered
\* with error "No notifier registered"; a failing delivery never stops the
\* worker from processing the notifications queued after it.  The history
\* followed by the queue only grows at its end, a pass of the worker moves
\* exactly the head of the queue to the end of the history whatever the
\* result of the send, and the n-th notification ever queued becomes the
\* n-th entry of the history.
C36_DeliveredInOrder ==
    /\ [][ /\ IsPrefixOf(EverQueued(delivery_history, notification_queue),
                         EverQueued(delivery_history', notification_queue'))
           /\ IsPrefixOf(delivery_history, delivery_history')
           /\ Len(delivery_history') <= Len(delivery_history) + 1
           /\ \A ok \in BOOLEAN :
                 Deliver(ok) =>
                   /\ Len(delivery_history') = Len(delivery_history) + 1
                   /\ notification_queue' = Tail(notification_queue)
                   /\ AsQueued(<<Last(delivery_history')>>)
                         = <<Head(notification_queue)>>
                   /\ IF Head(notification_queue).channel \in Notifiers
                      THEN /\ Last(delivery_history').delivered = ok
                           /\ Last(delivery_history').error = "None"
                      ELSE /\ ~Last(delivery_history').delivered
                           /\ Last(delivery_history').error
                                 = "No notifier registered" ]_vars
    /\ \A n \in 0..(MaxTriggers + 1) :
          (Len(EverQueued(delivery_history, notification_queue)) > n)
             ~> (Len(delivery_history) > n)

\* the worker recorded a failed e-mail, went on to deliver a later one,
\* and recorded a notification for a channel without notifier
C36_Witness ==
    /\ \E i, j \in DOMAIN delivery_history :
          /\ i < j
          /\ delivery_history[i].channel = "email"
          /\ ~delivery_history[i].delivered
          /\ delivery_history[j].delivered
    /\ \E k \in DOMAIN delivery_history :
          /\ delivery_history[k].channel = "sms"
          /\ ~delivery_history[k].delivered
          /\ delivery_history[k].error = "No notifier registered"
    /\ notification_queue = <<>>

\* ======================================================================
\* Properties of the throttle state across configurations
\* ======================================================================
\* the iteration's configuration got past the throttle gate
PassedGate(v) == v.verdict # "throttled"

\* C37: throttle state is shared by all alert configurations: among the
\* configurations one trigger call iterates over that have the same
\* positive minimum interval, once the gate has passed for one of them
\* every later one whose gate is read before the interval has elapsed is
\* throttled by the state written for the earlier one, so that within
\* the interval at most one configuration of the call gets to its sends.
C37_SharedThrottle ==
    \A t \in TaskIds :
       \A i, j \in DOMAIN tasks[t].verdicts :
          LET vi == tasks[t].verdicts[i]
              vj == tasks[t].verdicts[j]
              mi == MinSeconds(tasks[t].event, configs[vi.config])
              mj == MinSeconds(tasks[t].event, configs[vj.config])
          IN  ( /\ i < j
                /\ mi = mj
                /\ mi > 0
                /\ PassedGate(vi)
                /\ vj.at - vi.at < mi )
              => /\ vj.verdict = "throttled"
                 /\ \A k \in DOMAIN tasks[t].sent :
                       tasks[t].sent[k].config # vj.config

\* a motion alert over two configurations with the 300 s interval: the
\* first one's e-mail was sent, time passed during the send, and the
\* second one was throttled
C37_Witness ==
    \E t \in TaskIds :
       /\ configs = TwinTable
       /\ tasks[t].event.kind = "motion"
       /\ tasks[t].pc = "done"
       /\ Len(tasks[t].verdicts) = 2
       /\ tasks[t].verdicts[1].verdict = "send"
       /\ tasks[t].verdicts[2].verdict = "throttled"
       /\ tasks[t].verdicts[2].at > tasks[t].verdicts[1].at
       /\ \E k \in DOMAIN tasks[t].sent :
             tasks[t].sent[k] = [config |-> 1, channel |-> "email", ok |-> TRUE]

\* ======================================================================
\* Properties of the recording files
\* ======================================================================
\* C38: each recording session writes to its own output and metadata
\* file: two sessions that are active at the same time on different
\* cameras, and two successive sessions of one camera, never use the same
\* file name.  No two video writers that opened were given the same file
\* name, and no two metadata documents were written under the same name.
C38_OwnFiles ==
    /\ \A i, j \in DOMAIN sinks :
          (i # j /\ sinks[i].opened /\ sinks[j].opened)
             => sinks[i].filename # sinks[j].filename
    /\ \A i, j \in DOMAIN saved :
          i # j => saved[i].metadata_filename # saved[j].metadata_filename

====
